---- MODULE Spec2Model ----
(***************************************************************************)
(* A model of the culvert toolkit (package drainit).                       *)
(*                                                                         *)
(* Two parts of the program are modelled:                                  *)
(*   - the NAACC ingest (services/naacc.py): a table of raw NAACC rows is  *)
(*     validated, extended with the Capacity columns and hydrated;         *)
(*   - the culvert-capacity workflow (workflows.py, models.py, the         *)
(*     calculators, the delineation loop of the GP service): points are    *)
(*     loaded, delineated, analysed, exported, and the workflow            *)
(*     configuration is saved to and loaded from JSON.                     *)
(*                                                                         *)
(* Python values are tagged records, so that None, a number, a text that   *)
(* spells a number and any other text are four different things, as they   *)
(* are in Python.  Lengths are fixed-point integers: feet as read, metres  *)
(* in millimetres, areas in 1/100 m2, flows in 1/100 m3/s, rainfall depth  *)
(* in 1/100 cm.                                                            *)
(***************************************************************************)
EXTENDS Integers, Sequences, FiniteSets, TLC

None == [k |-> "none"]
Num(n) == [k |-> "num", v |-> n]
NumStr(n) == [k |-> "numstr", v |-> n]
Str(s) == [k |-> "str", s |-> s]
Dict(d) == [k |-> "dict", d |-> d]
Raised(e) == [k |-> "raised", e |-> e]
NaN == [k |-> "nan"]

IsNone(x) == "k" \in DOMAIN x /\ x.k = "none"
IsNum(x) == x.k = "num"
IsRaised(x) == x.k = "raised"

\* Python float(x): a number stays, a text spelling a number is parsed,
\* anything else raises (ValueError for text, TypeError for None).
PyFloat(x) ==
    CASE x.k = "num" -> x
      [] x.k = "numstr" -> Num(x.v)
      [] x.k = "str" -> Raised("ValueError")
      [] OTHER -> Raised("TypeError")

\* Python str.lower() on the texts the model uses.
Lower(s) ==
    CASE s = "Culvert" -> "culvert"
      [] s = "Multiple Culvert" -> "multiple culvert"
      [] s = "Bridge" -> "bridge"
      [] OTHER -> s

RECURSIVE SqrtSearch(_, _, _)
SqrtSearch(lo, hi, x) ==
    IF lo >= hi THEN lo
    ELSE LET mid == (lo + hi + 1) \div 2
         IN IF mid * mid <= x THEN SqrtSearch(mid, hi, x)
            ELSE SqrtSearch(lo, mid - 1, x)

\* floor of the square root
IntSqrt(x) == SqrtSearch(0, 40000, x)

(***************************************************************************)
(* calculators/capacity.py                                                 *)
(***************************************************************************)

\* si_conv_factor, times 1000
SI_CONV_FACTOR == 1811

\* calc_culvert_capacity: A * sqrt(D * (H/D - y - ks*S) / c) / 1.811 inside
\* try/except: any exception (a None operand, a zero depth or c, a negative
\* radicand) gives None.  area in 1/100 m2, head and depth in mm, slope_rr
\* in 1/10000, ks in 1/10, y in 1/100, c in 1/10000; result in 1/100 m3/s.
\* D * (H/D - k) is H - D*k for every non-zero D.
calc_culvert_capacity(culvert_area_sqm, head_over_invert, culvert_depth_m, slope_rr, coefficient_slope, coefficient_y, coefficient_c) ==
    IF \E a \in {culvert_area_sqm, head_over_invert, culvert_depth_m, slope_rr,
                 coefficient_slope, coefficient_y, coefficient_c} : ~IsNum(a)
    THEN None
    ELSE IF culvert_depth_m.v = 0 \/ coefficient_c.v = 0 THEN None
    ELSE LET radicand == head_over_invert.v * 100000
                         - culvert_depth_m.v
                           * (coefficient_y.v * 1000 + coefficient_slope.v * slope_rr.v)
         IN IF radicand < 0 THEN None
            ELSE Num((culvert_area_sqm.v * IntSqrt(radicand \div coefficient_c.v) * 10)
                     \div SI_CONV_FACTOR)

(***************************************************************************)
(* services/naacc_config.py                                                *)
(***************************************************************************)

NAACC_INLET_SHAPE_CROSSWALK(x) ==
    CASE x = Str("Round Culvert") -> Str("Round")
      [] x = Str("Pipe Arch/Elliptical Culvert") -> Str("Elliptical")
      [] x = Str("Box Culvert") -> Str("Box")
      [] x = Str("Box/Bridge with Abutments") -> Str("Box")
      [] x = Str("Bridge with Abutments and Side Slopes") -> Str("Box")
      [] x = Str("Open Bottom Arch Bridge/Culvert") -> Str("Arch")
      [] OTHER -> x

NAACC_INLET_TYPE_CROSSWALK(x) ==
    CASE x = Str("Headwall and Wingwalls") -> Str("Wingwall and Headwall")
      [] x = Str("Wingwalls") -> Str("Wingwall")
      [] x = Str("None") -> Str("Projecting")
      [] OTHER -> x

\* The crosswalk list, NAACC field -> short field, in its order.  (As
\* written the list lacks the comma after its second entry; the entries are
\* taken as listed.)  Crossing_Type goes to "crossing_type", which is not a
\* field of Capacity: Capacity has "xing_type".
NAACC_HEADER_XWALK ==
    << <<"Crossing_Type", "crossing_type">>,
       <<"Crossing_Comment", "comments">>,
       <<"Crossing_Structure_Length", "length">>,
       <<"Inlet_Type", "in_type">>,
       <<"Inlet_Structure_Type", "in_shape">>,
       <<"Inlet_Width", "in_a">>,
       <<"Inlet_Height", "in_b">>,
       <<"Material", "culv_mat">>,
       <<"Outlet_Structure_Type", "out_shape">>,
       <<"Outlet_Width", "out_a">>,
       <<"Outlet_Height", "out_b">>,
       <<"Road_Fill_Height", "hw">>,
       <<"Slope_Percent", "slope">> >>

\* the Capacity fields whose type is float
CAPACITY_NUMERIC_FIELDS ==
    {"in_a", "in_b", "hw", "slope", "length", "out_a", "out_b",
     "culvert_area_sqm", "culvert_depth_m", "coefficient_c", "coefficient_y",
     "coefficient_slope", "slope_rr", "head_over_invert", "culvert_capacity",
     "crossing_capacity", "max_return_period"}

\* the Capacity dataclass: its fields and their defaults (c in 1/10000,
\* y in 1/100, ks in 1/10)
Capacity ==
    [culv_mat |-> None, in_type |-> None, in_shape |-> None, in_a |-> None,
     in_b |-> None, hw |-> None, slope |-> None, length |-> None,
     out_shape |-> None, out_a |-> None, out_b |-> None, xing_type |-> None,
     culvert_area_sqm |-> None, culvert_depth_m |-> None,
     coefficient_c |-> Num(400), coefficient_y |-> Num(70),
     coefficient_slope |-> Num(-5), slope_rr |-> None,
     head_over_invert |-> None, comments |-> None, include |-> TRUE,
     culvert_capacity |-> None, crossing_capacity |-> None,
     max_return_period |-> None]

(***************************************************************************)
(* utils.py, models.py: validation of a raw row against NaaccCulvertSchema *)
(***************************************************************************)

\* the required NAACC fields of type float, and of type str
NaaccFloatFields ==
    {"Inlet_Width", "Inlet_Height", "Road_Fill_Height", "Slope_Percent",
     "Crossing_Structure_Length", "Outlet_Width", "Outlet_Height"}
NaaccStrFields ==
    {"Material", "Inlet_Type", "Inlet_Structure_Type", "Outlet_Structure_Type",
     "Crossing_Type"}

\* cast_fields (pre_load): a value that is not of the field's type and is
\* not None is cast if it can be; a text that spells no number is left.
cast_fields(row) ==
    [f \in DOMAIN row |->
        IF f \in NaaccFloatFields /\ row[f].k = "numstr" THEN Num(row[f].v)
        ELSE row[f]]

\* validate_petl_record_w_schema: the schema's errors, field -> reasons, or
\* None when there are none.
validate_petl_record_w_schema(row) ==
    LET r == cast_fields(row)
        bad == {f \in (NaaccFloatFields \cup NaaccStrFields) \cap DOMAIN r :
                    IsNone(r[f]) \/ (f \in NaaccFloatFields /\ ~IsNum(r[f]))}
        errors == [f \in bad |->
                     IF IsNone(r[f]) THEN <<"Field may not be null.">>
                     ELSE <<"Not a valid number.">>]
    IN IF bad = {} THEN None ELSE Dict(errors)

\* convert_value_via_xwalk with preserve_non_matches: the crosswalks above
\* already return their argument when it is no key.
convert_value_via_xwalk(k, crosswalk_is_shape) ==
    IF crosswalk_is_shape THEN NAACC_INLET_SHAPE_CROSSWALK(k)
    ELSE NAACC_INLET_TYPE_CROSSWALK(k)

(***************************************************************************)
(* services/naacc.py: the row functions of the hydration                   *)
(***************************************************************************)

\* the header of the extended table: the raw columns, validation_errors and
\* the Capacity columns
ExtendedHeader(row) == DOMAIN row \cup DOMAIN Capacity

\* OrderedDict(zip(row.flds, row)): values beyond the header are dropped
ZipFlds(row, header) == [f \in DOMAIN row \cap header |-> row[f]]

RECURSIVE XwalkFrom(_, _)
XwalkFrom(r, i) ==
    IF i > Len(NAACC_HEADER_XWALK) THEN r
    ELSE LET n_field == NAACC_HEADER_XWALK[i][1]
             cap_field == NAACC_HEADER_XWALK[i][2]
             src == IF n_field \in DOMAIN r THEN r[n_field] ELSE None
             cast == PyFloat(src)
             val == IF cap_field \in CAPACITY_NUMERIC_FIELDS /\ ~IsRaised(cast)
                    THEN cast ELSE src
         IN XwalkFrom((cap_field :> val) @@ r, i + 1)

\* _xwalk_naacc_to_capacity: copy each NAACC field of the crosswalk to its
\* short field, casting numeric ones when they can be cast.  A short field
\* that is no column ("crossing_type") becomes an extra trailing value.
XwalkNaaccToCapacity(row) == XwalkFrom(row, 1)

OK_CROSSING_TYPES == {"culvert", "multiple culvert"}

CULVERT_GEOMETRY_FIELDS_TO_CHECK_1 == <<"in_a", "in_b", "hw", "length">>

\* {} and dict.update
EmptyDict == [f \in {} |-> <<>>]
DictUpdate(d, e) == e @@ d

\* _culvert_geometry_tests.  r.get("xing_type", "") is the column's value,
\* None included (the default applies to a missing key only), and
\* None.lower() raises AttributeError.  The list of "< 0" tests is built
\* before the branches and raises TypeError on a text.  In the branch for a
\* non-float, v ranges over the isinstance results, which are never None.
CulvertGeometryTests(row, header) ==
    LET r == ZipFlds(row, header)
        xt == r["xing_type"]
        GF == {CULVERT_GEOMETRY_FIELDS_TO_CHECK_1[i] : i \in 1..4}
        bad_type == Lower(xt.s) \notin OK_CROSSING_TYPES
        e1 == IF bad_type
              THEN [f \in {"xing_type"} |-> <<"Not a culvert or multi-culvert">>]
              ELSE EmptyDict
        are_floats == [f \in GF |-> IsNum(r[f])]
        lt0_raises == \E f \in GF : ~IsNone(r[f]) /\ ~IsNum(r[f])
        all_floats == \A f \in GF : are_floats[f]
        any_lt0 == \E f \in GF : r[f].v < 0
        e2 == IF ~all_floats THEN [f \in GF |-> <<"must be a number">>]
              ELSE IF any_lt0
              THEN [f \in {g \in GF : r[g].v < 0} |-> <<"must be a greater than zero">>]
              ELSE EmptyDict
        validation_errors == e2 @@ e1
        excluded == bad_type \/ ~all_floats \/ any_lt0
        r1 == IF excluded THEN [r EXCEPT !["include"] = FALSE] ELSE r
    IN IF xt.k # "str" THEN Raised("AttributeError")
       ELSE IF lt0_raises THEN Raised("TypeError")
       ELSE IF DOMAIN validation_errors = {} THEN r1
       ELSE IF ~IsNone(r1["validation_errors"])
       THEN [r1 EXCEPT !["validation_errors"] =
                          Dict(DictUpdate(r1["validation_errors"].d, validation_errors))]
       ELSE [r1 EXCEPT !["validation_errors"] = Dict(validation_errors)]

\* (x * units.foot).to(units.meter).magnitude, in mm
FeetToMetres(ft) == (ft * 3048) \div 10

\* PI, times 100000
PI == 314159

CONVERTED_FIELDS == <<"length", "in_a", "in_b", "hw", "out_a", "out_b">>

\* the coefficients as they are before any branch assigns them
CoefficientDefaults(in_shape, culv_mat, in_type) == <<400, 70, FALSE>>

\* the c and y coefficients by shape, material and inlet type, c in
\* 1/10000 and y in 1/100, and whether the "Default c & Y values." comment
\* is added; the filler values 0.04 and 0.7 where no branch applies
CoefficientCY(in_shape, culv_mat, in_type) ==
    LET concrete == culv_mat \in {Str("Concrete"), Str("Stone")}
        plastic == culv_mat \in {Str("Plastic"), Str("Metal")}
        combo == culv_mat = Str("Combination")
        filler == <<400, 70, FALSE>>
    IN CASE in_shape = Str("Arch") ->
              (CASE concrete ->
                      (CASE in_type \in {Str("Headwall"), Str("Projecting")} -> <<410, 57, FALSE>>
                         [] in_type = Str("Mitered to Slope") -> <<400, 48, FALSE>>
                         [] in_type = Str("Wingwall") -> <<400, 62, FALSE>>
                         [] in_type = Str("Wingwall and Headwall") -> <<400, 62, FALSE>>
                         [] OTHER -> filler)
                 [] plastic ->
                      (CASE in_type = Str("Mitered to Slope") -> <<540, 50, FALSE>>
                         [] in_type = Str("Projecting") -> <<650, 12, FALSE>>
                         [] in_type \in {Str("Headwall"), Str("Wingwall and Headwall"),
                                         Str("Wingwall")} -> <<431, 61, FALSE>>
                         [] OTHER -> filler)
                 [] combo -> <<450, 50, TRUE>>
                 [] OTHER -> filler)
         [] in_shape = Str("Box") ->
              (CASE concrete -> <<378, 87, FALSE>>
                 [] plastic ->
                      (CASE in_type = Str("Headwall") -> <<379, 69, FALSE>>
                         [] in_type = Str("Wingwall") -> <<400, 62, TRUE>>
                         [] OTHER -> <<400, 65, TRUE>>)
                 [] culv_mat = Str("Wood") -> <<380, 87, FALSE>>
                 [] combo -> <<380, 70, TRUE>>
                 [] OTHER -> filler)
         [] in_shape \in {Str("Elliptical"), Str("Pipe Arch")} ->
              (CASE concrete -> <<480, 80, FALSE>>
                 [] plastic ->
                      (CASE in_type = Str("Projecting") -> <<600, 75, FALSE>>
                         [] OTHER -> <<480, 80, FALSE>>)
                 [] combo -> <<500, 80, TRUE>>
                 [] OTHER -> filler)
         [] in_shape = Str("Round") ->
              (CASE concrete ->
                      (CASE in_type = Str("Projecting") -> <<320, 69, FALSE>>
                         [] OTHER -> <<290, 74, FALSE>>)
                 [] plastic ->
                      (CASE in_type = Str("Projecting") -> <<550, 54, FALSE>>
                         [] in_type = Str("Mitered to Slope") -> <<460, 75, FALSE>>
                         [] OTHER -> <<380, 69, FALSE>>)
                 [] combo -> <<400, 65, TRUE>>
                 [] OTHER -> filler)
         [] OTHER -> filler

\* culvert area (1/100 m2) by shape; a and b in mm
CulvertArea(in_shape, a, b) ==
    CASE in_shape \in {Str("Elliptical"), Str("Pipe Arch")} ->
              (((a * b) \div 10000) * PI) \div 400000
      [] in_shape = Str("Box") -> (a * b) \div 10000
      [] in_shape = Str("Arch") -> (((a * b) \div 10000) * PI) \div 800000
      [] OTHER -> (((a * a) \div 10000) * PI) \div 400000

\* culvert depth (mm) by shape
CulvertDepth(in_shape, a, b) ==
    IF in_shape \in {Str("Elliptical"), Str("Pipe Arch"), Str("Box"), Str("Arch")}
    THEN b ELSE a

\* the comments joined with "; "
JoinComments(slope_missing, default_cy) ==
    CASE slope_missing /\ default_cy ->
              Str("slope missing (-1), defaulting to 0.; Default c & Y values.")
      [] slope_missing -> Str("slope missing (-1), defaulting to 0.")
      [] default_cy -> Str("Default c & Y values.")
      [] OTHER -> Str("")

\* _derive_capacity_parameters.  An excluded row only has its lengths
\* converted (a negative one becomes None, anything that cannot be compared
\* is left).  An included row is converted field by field; an operand
\* that is no number raises TypeError, which is caught: the row is returned
\* as it is at that point, without the derived values.  The slope note goes
\* to the comments column; exclusion_comments is never filled.
DeriveCapacityParameters(rowin, header) ==
    LET row == ZipFlds(rowin, header)
        CF == {CONVERTED_FIELDS[i] : i \in 1..Len(CONVERTED_FIELDS)}
        excl == [f \in DOMAIN row |->
                   IF f \in CF /\ IsNum(row[f])
                   THEN IF row[f].v >= 0 THEN Num(FeetToMetres(row[f].v)) ELSE None
                   ELSE row[f]]
        bad == {i \in 1..Len(CONVERTED_FIELDS) : ~IsNum(row[CONVERTED_FIELDS[i]])}
        first_bad == IF bad = {} THEN Len(CONVERTED_FIELDS) + 1
                     ELSE CHOOSE i \in bad : \A j \in bad : i <= j
        conv == [f \in DOMAIN row |->
                   IF \E i \in 1..(first_bad - 1) : CONVERTED_FIELDS[i] = f
                   THEN Num(FeetToMetres(row[f].v)) ELSE row[f]]
        slope_missing == conv["slope"] = Num(-1)
        slope_rr == IF slope_missing THEN 0 ELSE conv["slope"].v * 100
        area == CulvertArea(conv["in_shape"], conv["in_a"].v, conv["in_b"].v)
        depth == CulvertDepth(conv["in_shape"], conv["in_a"].v, conv["in_b"].v)
        ks == IF conv["in_type"] = Str("Mitered to Slope") THEN 7 ELSE -5
        cy == CoefficientCY(conv["in_shape"], conv["culv_mat"], conv["in_type"])
    IN IF row["include"] = FALSE THEN excl
       ELSE IF bad # {} THEN conv
       ELSE IF ~slope_missing /\ ~IsNum(conv["slope"]) THEN conv
       ELSE [conv EXCEPT !["comments"] = JoinComments(slope_missing, cy[3]),
                         !["culvert_area_sqm"] = Num(area),
                         !["culvert_depth_m"] = Num(depth),
                         !["coefficient_c"] = Num(cy[1]),
                         !["coefficient_y"] = Num(cy[2]),
                         !["coefficient_slope"] = Num(ks),
                         !["head_over_invert"] = Num(conv["hw"].v + depth),
                         !["slope_rr"] = Num(slope_rr)]

(***************************************************************************)
(* State                                                                   *)
(***************************************************************************)

VARIABLES
    naacc_petl_table,   \* NaaccEtl: the raw NAACC table given to the ingest
    etl,                \* NaaccEtl: what the ingest did, and self.table
    src_table,          \* the prepared NAACC geodata the workflow reads
    landscape,          \* what the rasters give for each point's catchment
    points,             \* WorkflowConfig.points
    phase,              \* where the workflow is
    runs,               \* calls of _analyze_all_points so far
    override_skip,      \* the override_skip of the delineation
    exported,           \* the exported point table
    config_json,        \* the workflow configuration file
    config,             \* WorkflowConfig: the file path fields
    ctor                \* the arguments the workflow object was constructed with

vars == <<naacc_petl_table, etl, src_table, landscape, points, phase, runs,
          override_skip, exported, config_json, config, ctor>>

workflow_vars == <<src_table, landscape, points, phase, runs, override_skip,
                   exported, config_json, config, ctor>>

\* the fields of WorkflowConfig that the model follows, and their defaults
WorkflowConfigFields == {"points_filepath", "raster_curvenumber_filepath"}
WorkflowConfig == [f \in WorkflowConfigFields |-> None]

\* CulvertCapacity(): no configuration file, no keyword argument
NoArguments ==
    [config_json_filepath |-> FALSE, save_config_json_filepath |-> FALSE,
     kwargs |-> [f \in {} |-> None]]

\* the workflow object as CulvertCapacity() constructs it
ConstructedPlain == config = WorkflowConfig /\ ctor = NoArguments

(***************************************************************************)
(* services/naacc.py: the ingest                                           *)
(***************************************************************************)

\* a row function that raised is the exception, not a row
RowRaised(r) == "k" \in DOMAIN r

\* etl.replaceall(raw_table, "", None)
ReplaceEmpty(row) == [f \in DOMAIN row |-> IF row[f] = Str("") THEN None ELSE row[f]]

\* the fieldmap of validate_extend_hydrate_naacc_table: every column as it
\* is, and validation_errors from the schema
ValidateRow(row) ==
    LET r == ReplaceEmpty(row)
    IN ("validation_errors" :> validate_petl_record_w_schema(r)) @@ r

\* convert('include', ...): False if validation_errors is not None
FinalizeInclude(row) == [row EXCEPT !["include"] = IsNone(row["validation_errors"])]

\* convert('culvert_capacity', ...)
ConvertCulvertCapacity(row) ==
    [row EXCEPT !["culvert_capacity"] =
        calc_culvert_capacity(row["culvert_area_sqm"], row["head_over_invert"],
                              row["culvert_depth_m"], row["slope_rr"],
                              row["coefficient_slope"], row["coefficient_y"],
                              row["coefficient_c"])]

\* _extend_and_hydrate on one row: the Capacity columns replace any of the
\* same name and hold the defaults; then the chain of row functions, every
\* one with failonerror=True, so that an exception of a row function leaves
\* the chain.
ExtendAndHydrate(validated) ==
    LET extended == Capacity @@ validated
        header == DOMAIN extended
        x == XwalkNaaccToCapacity(extended)
        c1 == [x EXCEPT !["in_shape"] =
                  convert_value_via_xwalk(x["Inlet_Structure_Type"], TRUE)]
        c2 == [c1 EXCEPT !["in_type"] =
                  convert_value_via_xwalk(c1["Inlet_Type"], FALSE)]
        g == CulvertGeometryTests(c2, header)
        d == DeriveCapacityParameters(g, header)
    IN IF RowRaised(g) THEN g
       ELSE ConvertCulvertCapacity(FinalizeInclude(d))

RECURSIVE FirstRaised(_, _)
FirstRaised(rows, i) ==
    IF i > Len(rows) THEN None
    ELSE IF RowRaised(rows[i]) THEN rows[i]
    ELSE FirstRaised(rows, i + 1)

\* validate_extend_hydrate_naacc_table on a table: the tables are lazy, and
\* with rows present the count of the rows with errors iterates the whole
\* chain, so that the first row whose function raises ends the call.
\* self.table is assigned at the end only.
ValidateExtendHydrateTable(raw_table) ==
    LET hydrated == [i \in 1..Len(raw_table) |->
                        ExtendAndHydrate(ValidateRow(raw_table[i]))]
        failure == FirstRaised(hydrated, 1)
    IN IF IsNone(failure) THEN [state |-> "done", error |-> "", table |-> hydrated]
       ELSE [state |-> "raised", error |-> failure.e, table |-> <<>>]

\* the raw rows the model gives to the ingest: cells as a CSV gives them
\* (text, or None for an empty cell)
RawRows ==
    [Crossing_Type : {Str("Culvert"), Str("Bridge"), None},
     Crossing_Comment : {None},
     Crossing_Structure_Length : {NumStr(40)},
     Inlet_Type : {Str("Headwall")},
     Inlet_Structure_Type : {Str("Round Culvert")},
     Inlet_Width : {NumStr(3), NumStr(-2), Str("abc"), None},
     Inlet_Height : {NumStr(2)},
     Material : {Str("Concrete")},
     Outlet_Structure_Type : {Str("Round Culvert")},
     Outlet_Width : {NumStr(3)},
     Outlet_Height : {NumStr(2)},
     Road_Fill_Height : {NumStr(1)},
     Slope_Percent : {NumStr(-1), NumStr(2)}]

\* rows of the raw table
MaxRows == 2

EtlIdle == [state |-> "new", error |-> "", table |-> <<>>]

\* the workflow is not part of the ingest
NoWorkflow ==
    /\ src_table = <<>>
    /\ landscape = <<>>
    /\ points = <<>>
    /\ phase = "none"
    /\ runs = 0
    /\ override_skip = FALSE
    /\ exported = <<>>
    /\ config_json = None
    /\ ConstructedPlain

InitEtl ==
    /\ naacc_petl_table = <<>>
    /\ etl = EtlIdle
    /\ NoWorkflow

\* the raw table is read row by row
ReadRow ==
    /\ etl.state = "new"
    /\ Len(naacc_petl_table) < MaxRows
    /\ \E row \in RawRows : naacc_petl_table' = Append(naacc_petl_table, row)
    /\ UNCHANGED <<etl, workflow_vars>>

\* NaaccEtl.validate_extend_hydrate_naacc_table()
ValidateExtendHydrate ==
    /\ etl.state = "new"
    /\ etl' = ValidateExtendHydrateTable(naacc_petl_table)
    /\ UNCHANGED <<naacc_petl_table, workflow_vars>>

NextEtl == ReadRow \/ ValidateExtendHydrate

SpecEtl == InitEtl /\ [][NextEtl]_vars

(***************************************************************************)
(* Python helpers of the workflow                                          *)
(***************************************************************************)

\* a tuple of two
Pair(a, b) == [k |-> "pair", a |-> a, b |-> b]

\* bool(x) of a number or None
Truthy(x) == IsNum(x) /\ x.v # 0

\* str(n) of a non-negative integer, as its decimal digits
RECURSIVE Digits(_)
Digits(n) == IF n < 10 THEN <<n>> ELSE Append(Digits(n \div 10), n % 10)

\* s < t for two texts of digits: the order of str
RECURSIVE DigitsLess(_, _)
DigitsLess(s, t) ==
    IF s = <<>> THEN t # <<>>
    ELSE IF t = <<>> THEN FALSE
    ELSE IF Head(s) # Head(t) THEN Head(s) < Head(t)
    ELSE DigitsLess(Tail(s), Tail(t))

\* a < b as Python decides it for two numbers or for two texts
PyLess(a, b) ==
    IF IsNum(a) THEN a.v < b.v ELSE DigitsLess(Digits(a.v), Digits(b.v))

\* max(list): numbers by value, texts by the order of str; a list that
\* mixes the two raises TypeError
PyMax(list) ==
    LET idx == DOMAIN list
    IN IF \E i, j \in idx : list[i].k # list[j].k THEN Raised("TypeError")
       ELSE list[CHOOSE i \in idx : \A j \in idx : ~PyLess(list[i], list[j])]

\* a value computed once and handed to what follows, as an assignment to a
\* local variable does
Bind(value, Body(_)) == CHOOSE r \in {Body(x) : x \in {value}} : TRUE

\* the entries of a sequence that satisfy a test, in order
RECURSIVE SelectIdx(_, _, _)
SelectIdx(n, i, keep) ==
    IF i > n THEN <<>>
    ELSE IF i \in keep THEN <<i>> \o SelectIdx(n, i + 1, keep)
    ELSE SelectIdx(n, i + 1, keep)

RECURSIVE SumSeq(_)
SumSeq(s) == IF s = <<>> THEN 0 ELSE Head(s) + SumSeq(Tail(s))

(***************************************************************************)
(* config.py, calculators/overflow.py                                      *)
(***************************************************************************)

FREQUENCIES == <<1, 2, 5, 10, 25, 50, 100, 200, 500, 1000>>

\* a variant of the overflow that subtracts the capacity from the peak flow
OverflowPeakMinusCapacity(culvert_capacity, peak_flow) ==
    IF peak_flow.k = "nan" THEN NaN
    ELSE Num(peak_flow.v - culvert_capacity.v)

\* culvert_overflow_calculator: capacity - peak flow
culvert_overflow_calculator(culvert_capacity, peak_flow) ==
    IF peak_flow.k = "nan" THEN NaN
    ELSE Num(culvert_capacity.v - peak_flow.v)

\* the frequencies whose overflow is not None and >= 0, in order
HandledReturnPeriods(list_of_overflows, list_of_frequencies) ==
    LET n == IF Len(list_of_overflows) < Len(list_of_frequencies)
             THEN Len(list_of_overflows) ELSE Len(list_of_frequencies)
        keep == {i \in 1..n : IsNum(list_of_overflows[i]) /\ list_of_overflows[i].v >= 0}
        at == SelectIdx(n, 1, keep)
    IN [j \in 1..Len(at) |-> list_of_frequencies[at[j]]]

\* max_return_calculator: max() of the handled frequencies, None if none
max_return_calculator(list_of_overflows, list_of_frequencies) ==
    LET handled_return_periods ==
            HandledReturnPeriods(list_of_overflows, list_of_frequencies)
    IN IF Len(handled_return_periods) > 0 THEN PyMax(handled_return_periods)
       ELSE None

\* the Overflow dataclass
Overflow == [culvert_overflow_m3s |-> None, crossing_overflow_m3s |-> None]

(***************************************************************************)
(* calculators/runoff.py                                                   *)
(***************************************************************************)

\* the Runoff dataclass
Runoff == [time_of_concentration_hr |-> None, culvert_peakflow_m3s |-> None,
           crossing_peakflow_m3s |-> None]

\* time_of_concentration_calculator: a * L^0.77 * (S/100)^-0.385, a zero
\* slope replaced by 0.00001.  The powers are abstracted: the exponents
\* 0.77 and -0.385 are taken as 1 and -1/2, which keeps what matters here:
\* zero exactly for a zero flow length, growing with the length, falling
\* with the slope.  Slope in percent, the result in model units of time.
time_of_concentration_calculator(max_flow_length, mean_slope_pct) ==
    LET slope == IF mean_slope_pct = 0 THEN 1 ELSE mean_slope_pct * 100000
    IN (max_flow_length * 1000) \div IntSqrt(slope)

\* the unit peak discharge of rain-ratio method 1,
\* 10 ** (C0 + C1 log10(tc) + C2 log10(tc)^2 - 2.366): abstracted to a
\* number that falls with the number of digits of tc; log10(0) is -inf and
\* the power is then nan
UnitPeakDischarge(tc_hr) ==
    IF tc_hr = 0 THEN NaN
    ELSE LET d == Len(Digits(tc_hr)) IN Num(IF d >= 9 THEN 1 ELSE 10 - d)

\* qpeak_via_rain_ratio_method1: Q * qu * area
qpeak_via_rain_ratio_method1(init_abstraction, avg_rainfall_cm, tc_hr, Q, basin_area_sqkm) ==
    LET qu == UnitPeakDischarge(tc_hr)
    IN IF avg_rainfall_cm = 0 THEN Raised("ZeroDivisionError")
       ELSE IF qu.k = "nan" THEN NaN
       ELSE Num(Q * qu.v * basin_area_sqkm)

\* the peak flow returned when the rain is below the initial abstraction:
\* -9999 m3/s
NO_RUNOFF_PEAK == -999900

\* the default values of const0_values and const1_values, in 1/1000
const0_values == <<2798, 2798, 3225, 3529, 3932, 4244, 4570, 4914, 5403>>
const1_values == <<367, 367, 481, 559, 658, 733, 810, 888, 996>>

\* a numpy array of numbers
Array(v) == [k |-> "array", v |-> v]

\* qpeak_via_rain_ratio_method2: nine values Q * qu * area, one per pair
\* of constants, with qu = (Const0 - Const1 * tc) / 8.64 and at least 0.14
\* (qu in 1/100, tc in 1/1000)
qpeak_via_rain_ratio_method2(tc_hr, Q, basin_area_sqkm) ==
    LET qu == [i \in 1..Len(const0_values) |->
                 LET q == (const0_values[i] * 1000 - const1_values[i] * tc_hr) \div 86400
                 IN IF q < 14 THEN 14 ELSE q]
    IN Array([i \in 1..Len(qu) |-> Q * qu[i] * basin_area_sqkm])

\* peak_flow_calculator with a rain_ratio_method.  None for a curve number
\* of 0 or None; else the pair (peak flow, time of concentration).  The
\* code calls method 1 for rain_ratio_method == 2 and method 2 otherwise.
\* Rainfall, storage and abstraction in 1/100 cm.
peak_flow_calculator_by(mean_slope_pct, max_flow_length_m, avg_rainfall_cm, basin_area_sqkm, avg_cn, tc_hr, rain_ratio_method) ==
    IF ~Truthy(avg_cn) THEN None
    ELSE LET tc == IF Truthy(tc_hr) THEN tc_hr.v
                   ELSE time_of_concentration_calculator(max_flow_length_m.v,
                                                         mean_slope_pct.v)
             storage == (254000 \div avg_cn.v) - 2540
             init_abstraction == storage \div 5
             Pe == avg_rainfall_cm.v - init_abstraction
             denominator == avg_rainfall_cm.v + (storage - init_abstraction)
             Q == (Pe * Pe) \div denominator
             q_peak == IF rain_ratio_method = 2
                       THEN qpeak_via_rain_ratio_method1(init_abstraction, avg_rainfall_cm.v,
                                                         tc, Q, basin_area_sqkm.v)
                       ELSE qpeak_via_rain_ratio_method2(tc, Q, basin_area_sqkm.v)
         IN IF Pe < 0 THEN Pair(Num(NO_RUNOFF_PEAK), Num(tc))
            ELSE IF denominator = 0 THEN Raised("ZeroDivisionError")
            ELSE IF IsRaised(q_peak) THEN q_peak
            ELSE Pair(q_peak, Num(tc))

\* peak_flow_calculator without a rain_ratio_method: the default is 2
peak_flow_calculator(mean_slope_pct, max_flow_length_m, avg_rainfall_cm, basin_area_sqkm, avg_cn, tc_hr) ==
    peak_flow_calculator_by(mean_slope_pct, max_flow_length_m, avg_rainfall_cm,
                            basin_area_sqkm, avg_cn, tc_hr, 2)

(***************************************************************************)
(* models.py                                                               *)
(***************************************************************************)

\* units.Quantity(f'{value} inches / 1000').m_as('cm'), in 1/100 cm
ThousandthsInchToCm(value) == (value * 254) \div 1000

\* the Analytics of one Rainfall: a value that is None or 0 gives a depth
\* of 0
AnalyticsOf(r) ==
    [frequency |-> r.freq,
     duration |-> r.dur,
     avg_rainfall_cm |-> IF Truthy(r.value) THEN Num(ThousandthsInchToCm(r.value.v))
                         ELSE Num(0),
     peakflow |-> None,
     overflow |-> None]

\* DrainItPoint.derive_rainfall_analytics: nothing without a shed; else one
\* Analytics per rainfall of the shed is appended to the list
derive_rainfall_analytics(pt) ==
    IF IsNone(pt.shed) THEN pt
    ELSE [pt EXCEPT !.analytics =
            @ \o [i \in 1..Len(pt.shed.avg_rainfall) |-> AnalyticsOf(pt.shed.avg_rainfall[i])]]

\* Shed.calculate_tc: only with a slope and a flow length that are not 0
calculate_tc(shed) ==
    IF Truthy(shed.avg_slope_pct) /\ Truthy(shed.max_fl)
    THEN [shed EXCEPT !.tc_hr =
            Num(time_of_concentration_calculator(shed.max_fl.v, shed.avg_slope_pct.v))]
    ELSE shed

\* the overflow an entry contributes to the summary
SummaryOverflow(a) == IF IsNone(a.overflow) THEN None ELSE a.overflow.crossing_overflow_m3s

\* DrainItPoint.calculate_summary_analytics: with a capacity and a
\* non-empty analytics list, max_return_period from the crossing overflows
\* and the frequencies of the list
calculate_summary_analytics(pt) ==
    IF ~IsNone(pt.capacity) /\ pt.analytics # <<>>
    THEN [pt EXCEPT !.capacity.max_return_period =
            max_return_calculator([i \in 1..Len(pt.analytics) |-> SummaryOverflow(pt.analytics[i])],
                                  [i \in 1..Len(pt.analytics) |-> pt.analytics[i].frequency])]
    ELSE pt

(***************************************************************************)
(* workflows.py: CulvertCapacity._analyze_all_points                       *)
(***************************************************************************)

\* the points that are analysed: the included ones, by position
PointsToAnalyze(pts) == {i \in 1..Len(pts) : pts[i].include}

\* one entry of the per-point loop: a new Runoff with the shed's tc, the
\* peak flow, the crossing peak flow set to it, a new Overflow and, when
\* capacity and peak flow are both there, the culvert and crossing overflow.
\* A peak-flow result of None cannot be unpacked: TypeError.
AnalyzeEntry(pt, a) ==
    LET results == peak_flow_calculator(pt.shed.avg_slope_pct, pt.shed.max_fl,
                                        a.avg_rainfall_cm, pt.shed.area_sqkm,
                                        pt.shed.avg_cn, pt.shed.tc_hr)
        started == [a EXCEPT !.peakflow =
                      [Runoff EXCEPT !.time_of_concentration_hr = pt.shed.tc_hr]]
        peakflow == [time_of_concentration_hr |-> results.b,
                     culvert_peakflow_m3s |-> results.a,
                     crossing_peakflow_m3s |-> results.a]
        ovf == IF ~IsNone(pt.capacity.culvert_capacity) /\ ~IsNone(results.a)
               THEN culvert_overflow_calculator(pt.capacity.culvert_capacity, results.a)
               ELSE None
    IN IF results.k # "pair" THEN [raised |-> TRUE, entry |-> started]
       ELSE [raised |-> FALSE,
             entry |-> [a EXCEPT !.peakflow = peakflow,
                                 !.overflow = [culvert_overflow_m3s |-> ovf,
                                               crossing_overflow_m3s |-> ovf]]]

\* the entries of a point in order, up to and including the first that
\* raises; the ones after it are left as they are
RECURSIVE AnalyzeEntries(_, _, _)
AnalyzeEntries(pt, list, i) ==
    IF i > Len(list) THEN [raised |-> FALSE, list |-> list]
    ELSE Bind(AnalyzeEntry(pt, list[i]), LAMBDA r :
           Bind([list EXCEPT ![i] = r.entry], LAMBDA done :
              IF r.raised THEN [raised |-> TRUE, list |-> done]
              ELSE AnalyzeEntries(pt, done, i + 1)))

\* the body of the per-point loop
AnalyzePoint(pt0) ==
    Bind(derive_rainfall_analytics(pt0), LAMBDA pt1 :
      Bind([pt1 EXCEPT !.capacity.crossing_capacity = pt1.capacity.culvert_capacity,
                       !.shed = calculate_tc(pt1.shed)], LAMBDA pt2 :
        Bind(AnalyzeEntries(pt2, pt2.analytics, 1), LAMBDA r :
          [raised |-> r.raised, pt |-> [pt2 EXCEPT !.analytics = r.list]])))

\* the per-point loop over the points to analyse, in order; it ends at the
\* first point that raises
RECURSIVE AnalyzeEach(_, _, _)
AnalyzeEach(pts, todo, i) ==
    IF i > Len(pts) THEN [raised |-> FALSE, pts |-> pts]
    ELSE IF i \notin todo THEN AnalyzeEach(pts, todo, i + 1)
    ELSE Bind(AnalyzePoint(pts[i]), LAMBDA r :
           Bind([pts EXCEPT ![i] = r.pt], LAMBDA done :
              IF r.raised THEN [raised |-> TRUE, pts |-> done]
              ELSE AnalyzeEach(done, todo, i + 1)))

\* the group ids that more than one analysed point has (the Counter)
MulticulvertCrossingGroupIds(pts, todo) ==
    {pts[i].group_id : i \in {j \in todo : \E h \in todo : h # j /\ pts[h].group_id = pts[j].group_id}}

\* the analysed points with a group id, by position
CrossingPts(pts, todo, mcc) == {i \in todo : pts[i].group_id = mcc}

\* a variant of the crossing capacity that takes the largest capacity of
\* the crossing instead of the sum
CrossingCapacityLargest(pts, crossing_pts) ==
    LET caps == {pts[i].capacity.culvert_capacity.v :
                    i \in {j \in crossing_pts : ~IsNone(pts[j].capacity.culvert_capacity)}}
    IN IF caps = {} THEN 0 ELSE CHOOSE c \in caps : \A d \in caps : d <= c

\* sum of the culvert capacities of a crossing that are not None
CrossingCapacity(pts, crossing_pts) ==
    LET members == SelectIdx(Len(pts), 1,
                             {i \in crossing_pts : ~IsNone(pts[i].capacity.culvert_capacity)})
    IN SumSeq([j \in 1..Len(members) |-> pts[members[j]].capacity.culvert_capacity.v])

\* (area_sqkm, max_fl) of p before that of q, as tuples compare
ShedKeyLess(p, q) ==
    \/ p.shed.area_sqkm.v < q.shed.area_sqkm.v
    \/ /\ p.shed.area_sqkm.v = q.shed.area_sqkm.v
       /\ p.shed.max_fl.v < q.shed.max_fl.v

\* a variant of the reference point that goes by the area alone: the first
\* of the points with the greatest area
RefXingLargestArea(pts, crossing_pts) ==
    CHOOSE i \in crossing_pts :
        \A j \in crossing_pts :
            /\ pts[j].shed.area_sqkm.v <= pts[i].shed.area_sqkm.v
            /\ (pts[j].shed.area_sqkm.v = pts[i].shed.area_sqkm.v => i <= j)

\* sorted(crossing_pts, key=(area_sqkm, max_fl))[-1]: the sort is stable,
\* so that among the points with the greatest key the last one is taken
RefXingPeakflowPoint(pts, crossing_pts) ==
    CHOOSE i \in crossing_pts :
        \A j \in crossing_pts :
            /\ ~ShedKeyLess(pts[i], pts[j])
            /\ (~ShedKeyLess(pts[j], pts[i]) => j <= i)

\* a variant of the inner loops that leaves every entry with the peak flow
\* and the overflow of its own point
CrossingEntryKeepsOwn(a, ref_analytics, crossing_capacity) == a

\* the inner loops for one entry of a crossing point: every entry of the
\* reference point with the same frequency, in order, gives the crossing
\* peak flow and the crossing overflow, so that the last such entry stays
CrossingEntry(a, ref_analytics, crossing_capacity) ==
    LET same == {i \in 1..Len(ref_analytics) : ref_analytics[i].frequency = a.frequency}
        last == CHOOSE i \in same : \A j \in same : j <= i
        ref_peak == ref_analytics[last].peakflow.culvert_peakflow_m3s
    IN IF same = {} THEN a
       ELSE [a EXCEPT !.peakflow.crossing_peakflow_m3s = ref_peak,
                      !.overflow.crossing_overflow_m3s =
                          culvert_overflow_calculator(Num(crossing_capacity), ref_peak)]

\* the loop over the multi-culvert crossings: every member gets the
\* crossing capacity and, per entry, the reference point's peak flow
AnalyzeCrossings(pts, todo) ==
    LET mccs == MulticulvertCrossingGroupIds(pts, todo)
    IN [i \in 1..Len(pts) |->
          IF i \in todo /\ pts[i].group_id \in mccs
          THEN LET crossing_pts == CrossingPts(pts, todo, pts[i].group_id)
                   crossing_capacity == CrossingCapacity(pts, crossing_pts)
                   ref == pts[RefXingPeakflowPoint(pts, crossing_pts)]
               IN [pts[i] EXCEPT
                     !.capacity.crossing_capacity = Num(crossing_capacity),
                     !.analytics = [e \in 1..Len(pts[i].analytics) |->
                                      CrossingEntry(pts[i].analytics[e], ref.analytics,
                                                    crossing_capacity)]]
          ELSE pts[i]]

\* _analyze_all_points: the per-point loop, the crossings, and the summary
\* of every point of the configuration.  An exception leaves the points as
\* they are at that moment.
AnalyzeAllPoints(pts) ==
    Bind(PointsToAnalyze(pts), LAMBDA todo :
      Bind(AnalyzeEach(pts, todo, 1), LAMBDA each :
        IF each.raised THEN [raised |-> TRUE, pts |-> each.pts]
        ELSE Bind(AnalyzeCrossings(each.pts, todo), LAMBDA crossed :
               Bind([i \in 1..Len(pts) |-> calculate_summary_analytics(crossed[i])],
                    LAMBDA summed :
                 LET bad == {i \in 1..Len(pts) :
                               IsRaised(summed[i].capacity.max_return_period)}
                 IN IF bad # {}
                    THEN [raised |-> TRUE,
                          pts |-> [i \in 1..Len(pts) |->
                                     IF \A j \in bad : i < j THEN summed[i]
                                     ELSE crossed[i]]]
                    ELSE [raised |-> FALSE, pts |-> summed]))))

(***************************************************************************)
(* services/naacc.py: NaaccEtl.generate_points_from_table                  *)
(***************************************************************************)

\* json.loads of the text of a JSON object
JsonText(d) == [k |-> "json", d |-> d]
json_loads(text) == text.d

\* Capacity.calculate
CapacityCalculate(c) ==
    [c EXCEPT !.culvert_capacity =
        calc_culvert_capacity(c.culvert_area_sqm, c.head_over_invert, c.culvert_depth_m,
                              c.slope_rr, c.coefficient_slope, c.coefficient_y,
                              c.coefficient_c)]

\* one DrainItPoint from one row of the table: include from the row, the
\* validation errors when the cell holds any (parsed from JSON when text),
\* include False when the NAACC columns do not load into the NAACC schema;
\* the capacity is loaded from the capacity columns and calculated.  Shed
\* and analytics are the dataclass defaults.
GeneratePoint(r) ==
    [uid |-> r.Naacc_Culvert_Id,
     group_id |-> r.Survey_Id,
     include |-> r.include /\ r.naacc_loads,
     validation_errors |->
        IF IsNone(r.validation_errors) THEN EmptyDict
        ELSE IF r.validation_errors.k = "json" THEN json_loads(r.validation_errors)
        ELSE r.validation_errors.d,
     capacity |-> CapacityCalculate(r.capacity),
     shed |-> None,
     analytics |-> <<>>]

(***************************************************************************)
(* services/gp/_esri: delineation_and_analysis_in_parallel                 *)
(***************************************************************************)

\* the Rainfall of one raster for a shed: the frequency of the raster as
\* the configuration holds it (an int), the mean of the raster over the
\* shed or None
RainfallOf(land, f) == [freq |-> Num(f), dur |-> "24hr", value |-> land.rain[f]]

\* _delineate_and_analyze_one_catchment for the point at a position: the
\* scalars of the catchment and the rainfalls sorted by frequency
DelineateOneCatchment(land, i) ==
    [area_sqkm |-> land.sheds[i].area_sqkm,
     avg_slope_pct |-> land.sheds[i].avg_slope_pct,
     avg_cn |-> land.sheds[i].avg_cn,
     max_fl |-> land.sheds[i].max_fl,
     tc_hr |-> None,
     avg_rainfall |-> SortSeq([j \in 1..Len(land.rasters) |-> RainfallOf(land, land.rasters[j])],
                              LAMBDA x, y : x.freq.v < y.freq.v)]

\* a variant of the skip that delineates every point
SkipNoPoint(pt, override) == FALSE

\* the point is skipped when it is not included and there is no override
SkipDelineation(pt, override) == ~override /\ ~pt.include

\* a variant of the loop that goes by include alone
DelineationOfIncluded(pts, land, override) ==
    [i \in 1..Len(pts) |->
        IF ~pts[i].include THEN pts[i]
        ELSE [pts[i] EXCEPT !.shed = DelineateOneCatchment(land, i)]]

\* the sequential loop over the points
DelineationAndAnalysis(pts, land, override) ==
    [i \in 1..Len(pts) |->
        IF SkipDelineation(pts[i], override) THEN pts[i]
        ELSE [pts[i] EXCEPT !.shed = DelineateOneCatchment(land, i)]]

(***************************************************************************)
(* workflows.py: save_config, load_config (WorkflowConfigSchema)           *)
(***************************************************************************)

\* a String field serialises with str(): a number becomes its text
SerializeString(x) == IF IsNum(x) THEN NumStr(x.v) ELSE x

\* a Float field serialises with float(): the text of a number becomes the
\* number
SerializeFloat(x) == IF x.k = "numstr" THEN Num(x.v) ELSE x

\* WorkflowConfigSchema().dump of a point: Rainfall.freq and
\* Analytics.frequency are String fields, max_return_period a Float field
DumpPoint(pt) ==
    [pt EXCEPT
        !.capacity.max_return_period = SerializeFloat(@),
        !.shed = IF IsNone(@) THEN @
                 ELSE [@ EXCEPT !.avg_rainfall =
                         [i \in 1..Len(@) |-> [@[i] EXCEPT !.freq = SerializeString(@)]]],
        !.analytics = [i \in 1..Len(@) |-> [@[i] EXCEPT !.frequency = SerializeString(@)]]]

\* what a String field and a Float field accept when loading
LoadsAsString(x) == x.k \in {"none", "numstr", "str"}
LoadsAsFloat(x) == x.k \in {"none", "num", "numstr"}

\* WorkflowConfigSchema().load of a dumped point: the value of a field
\* that validates is kept (a Float field casts with float())
PointLoads(d) ==
    /\ LoadsAsFloat(d.capacity.max_return_period)
    /\ IF IsNone(d.shed) THEN TRUE
       ELSE \A i \in 1..Len(d.shed.avg_rainfall) :
                LoadsAsString(d.shed.avg_rainfall[i].freq)
    /\ \A i \in 1..Len(d.analytics) : LoadsAsString(d.analytics[i].frequency)

LoadPoint(d) == [d EXCEPT !.capacity.max_return_period = SerializeFloat(@)]

\* save_config: the dump of the configuration's points
SaveConfigPoints(pts) == [i \in 1..Len(pts) |-> DumpPoint(pts[i])]

\* load_config: the points of the file
LoadConfigPoints(dumped) == [i \in 1..Len(dumped) |-> LoadPoint(dumped[i])]

(***************************************************************************)
(* workflows.py: CulvertCapacity._export_culvert_featureclass              *)
(***************************************************************************)

shed_field_map == {"area_sqkm", "avg_slope_pct", "avg_cn", "max_fl", "tc_hr"}

analytics_field_map == {"culvert_peakflow_m3s", "crossing_peakflow_m3s",
                        "culvert_overflow_m3s", "crossing_overflow_m3s"}

capacity_field_map ==
    {"culv_mat", "in_type", "in_shape", "in_a", "in_b", "hw", "slope", "length",
     "out_shape", "out_a", "out_b", "crossing_type", "culvert_area_sqm",
     "culvert_depth_m", "coefficient_c", "coefficient_y", "coefficient_slope",
     "slope_rr", "head_over_invert", "culvert_capacity", "crossing_capacity",
     "max_return_period"}

\* one field per entry of FREQUENCIES, in that order
frequency_fields == [j \in 1..Len(FREQUENCIES) |-> FREQUENCIES[j]]

\* petl unpackdict: the value of each key, None for a key that is missing
\* or for a cell that is not a dict
UnpackDict(d, keys) ==
    [key \in keys |-> IF ~IsNone(d) /\ key \in DOMAIN d THEN d[key] ELSE None]

\* the text made of validation_errors: "field (message,message)" joined by
\* "; ", as the set of its parts
JoinValidationErrors(d) ==
    [k |-> "text", parts |-> {<<f, d[f]>> : f \in DOMAIN d}]

\* dict(**d['overflow'], **d['peakflow']) of one analytics cell; a cell
\* that is None (a list shorter than the fields) or an entry without an
\* overflow or a peak flow makes the conversion fail, which leaves None
AnalyticsCell(d) ==
    IF IsNone(d) THEN None
    ELSE IF IsNone(d.overflow) \/ IsNone(d.peakflow) THEN None
    ELSE [culvert_overflow_m3s |-> d.overflow.culvert_overflow_m3s,
          crossing_overflow_m3s |-> d.overflow.crossing_overflow_m3s,
          time_of_concentration_hr |-> d.peakflow.time_of_concentration_hr,
          culvert_peakflow_m3s |-> d.peakflow.culvert_peakflow_m3s,
          crossing_peakflow_m3s |-> d.peakflow.crossing_peakflow_m3s]

\* petl unpack('analytics', frequency_fields): by position, padded with
\* None, the entries after the last field dropped
UnpackAnalytics(analytics) ==
    [j \in 1..Len(frequency_fields) |->
        IF j <= Len(analytics) THEN analytics[j] ELSE None]

\* the row of one point: the dump of the point, a row number, the errors
\* as text, the capacity and shed columns and the four columns of every
\* frequency field
ExportRow(pt, oid) ==
    LET d == DumpPoint(pt)
        cells == UnpackAnalytics(d.analytics)
    IN [oid |-> oid,
        uid |-> d.uid,
        group_id |-> d.group_id,
        include |-> d.include,
        validation_errors |-> JoinValidationErrors(d.validation_errors),
        capacity |-> UnpackDict(d.capacity, capacity_field_map),
        shed |-> UnpackDict(d.shed, shed_field_map),
        y |-> [j \in 1..Len(frequency_fields) |->
                 UnpackDict(AnalyticsCell(cells[j]), analytics_field_map)]]

\* the table: one row per point of the configuration, in order
ExportCulvertFeatureclass(pts) == [i \in 1..Len(pts) |-> ExportRow(pts[i], i)]

(***************************************************************************)
(* The prepared point table and the rasters the workflow is run on         *)
(***************************************************************************)

\* the most points of a table
MaxPoints == 2

\* the most calls of _analyze_all_points on one configuration
MaxRuns == 2

\* the capacity columns of a hydrated round concrete headwall culvert, 3 ft
\* wide, with a missing slope
HydratedCapacity ==
    [Capacity EXCEPT !.culv_mat = Str("Concrete"), !.in_type = Str("Headwall"),
                     !.in_shape = Str("Round"), !.in_a = Num(914), !.in_b = Num(609),
                     !.hw = Num(304), !.slope = Num(-1), !.length = Num(12192),
                     !.culvert_area_sqm = Num(65), !.culvert_depth_m = Num(914),
                     !.coefficient_c = Num(290), !.coefficient_y = Num(74),
                     !.slope_rr = Num(0), !.head_over_invert = Num(1218)]

\* the same culvert, mitered to a 40 % slope with no fill above it: the
\* head is below what the capacity formula can take the root of
SteepCapacity ==
    [HydratedCapacity EXCEPT !.in_type = Str("Mitered to Slope"), !.hw = Num(0),
                             !.slope = Num(40), !.slope_rr = Num(4000),
                             !.coefficient_slope = Num(7),
                             !.head_over_invert = Num(914)]

\* the capacity columns of a row the ingest excluded: only the defaults
UnhydratedCapacity == [Capacity EXCEPT !.include = FALSE]

\* the validation errors of a row without an inlet width
GeometryErrors ==
    [f \in {"in_a", "in_b", "hw", "length"} |-> <<"must be a number (False)">>]

SrcKinds == {"hydrated", "steep", "bad_geometry", "bad_naacc"}

SurveyIds == {1, 2}

\* the row of a kind at a position: the id is the position; a row that
\* does not load into the NAACC schema has include true in the table
SrcRow(i, choice) ==
    [Naacc_Culvert_Id |-> NumStr(i),
     Survey_Id |-> NumStr(choice.survey),
     include |-> choice.kind # "bad_geometry",
     naacc_loads |-> choice.kind # "bad_naacc",
     validation_errors |-> IF choice.kind = "bad_geometry" THEN JsonText(GeometryErrors)
                           ELSE None,
     capacity |-> CASE choice.kind = "hydrated" -> HydratedCapacity
                    [] choice.kind = "steep" -> SteepCapacity
                    [] choice.kind = "bad_geometry" -> UnhydratedCapacity
                    [] choice.kind = "bad_naacc" -> HydratedCapacity]

\* the tables: the first row belongs to survey 1
SrcTables ==
    UNION {{[i \in 1..n |-> SrcRow(i, c[i])] :
                c \in {d \in [1..n -> [kind : SrcKinds, survey : SurveyIds]] :
                          d[1].survey = 1}} : n \in 1..MaxPoints}

\* the rainfall rasters of the configuration, by frequency, in the order of
\* the configuration
RasterFrequencies == {<<5, 10>>, <<10, 5>>}

\* the mean of each rainfall raster over a shed, in 1/1000 inch; the
\* rasters cover every shed alike
RainfallValues ==
    {[f \in {5, 10} |-> Num(3000)],
     [f \in {5, 10} |-> IF f = 5 THEN Num(3000) ELSE Num(6000)],
     [f \in {5, 10} |-> IF f = 5 THEN Num(1000) ELSE Num(3000)]}

\* the mean of the curve number raster over a shed; 0 where the raster has
\* no data
CurveNumbers == {Num(50), Num(0)}

\* what the rasters give for the catchment of a point
Catchment(area, cn) ==
    [area_sqkm |-> area, avg_slope_pct |-> Num(5), avg_cn |-> cn, max_fl |-> Num(1000)]

Landscapes(n) ==
    {[rasters |-> o, rain |-> r, sheds |-> [i \in 1..n |-> Catchment(a[i], cn[i])]] :
        o \in RasterFrequencies, r \in RainfallValues, cn \in [1..n -> CurveNumbers],
        a \in [1..n -> {Num(1), Num(2)}]}

(***************************************************************************)
(* The workflow: CulvertCapacity                                           *)
(***************************************************************************)

Init ==
    /\ naacc_petl_table = <<>>
    /\ etl = EtlIdle
    /\ src_table \in SrcTables
    /\ landscape \in Landscapes(Len(src_table))
    /\ points = <<>>
    /\ phase = "new"
    /\ runs = 0
    /\ override_skip = FALSE
    /\ exported = <<>>
    /\ config_json = None
    /\ ConstructedPlain

etl_vars == <<naacc_petl_table, etl>>

\* load_points: create_drainitpoints_from_geodata over the point table
LoadPoints ==
    /\ phase = "new"
    /\ points' = [i \in 1..Len(src_table) |-> GeneratePoint(src_table[i])]
    /\ phase' = "loaded"
    /\ UNCHANGED <<etl_vars, config, ctor, src_table, landscape, runs, override_skip, exported, config_json>>

\* delineation_and_analysis_in_parallel, with the override_skip of the call
Delineate ==
    /\ phase = "loaded"
    /\ \E override \in BOOLEAN :
          /\ override_skip' = override
          /\ points' = DelineationAndAnalysis(points, landscape, override)
    /\ phase' = "delineated"
    /\ UNCHANGED <<etl_vars, config, ctor, src_table, landscape, runs, exported, config_json>>

\* _analyze_all_points; an exception ends the workflow
AnalyzeAll ==
    /\ phase \in {"delineated", "analyzed"}
    /\ runs < MaxRuns
    /\ \E r \in {AnalyzeAllPoints(points)} :
          /\ points' = r.pts
          /\ phase' = IF r.raised THEN "aborted" ELSE "analyzed"
    /\ runs' = runs + 1
    /\ UNCHANGED <<etl_vars, config, ctor, src_table, landscape, override_skip, exported, config_json>>

\* _export_culvert_featureclass
Export ==
    /\ phase = "analyzed"
    /\ exported' = ExportCulvertFeatureclass(points)
    /\ phase' = "exported"
    /\ UNCHANGED <<etl_vars, config, ctor, src_table, landscape, points, runs, override_skip, config_json>>

\* save_config
SaveConfig ==
    /\ phase \in {"loaded", "delineated", "analyzed", "exported"}
    /\ config_json' = [points |-> SaveConfigPoints(points),
                       phase |-> IF phase = "exported" THEN "analyzed" ELSE phase]
    /\ phase' = "saved"
    /\ UNCHANGED <<etl_vars, config, ctor, src_table, landscape, points, runs, override_skip, exported>>

\* load_config of the saved file, by a new workflow object
LoadConfig ==
    /\ phase = "saved"
    /\ \A i \in 1..Len(config_json.points) : PointLoads(config_json.points[i])
    /\ points' = LoadConfigPoints(config_json.points)
    /\ phase' = config_json.phase
    /\ UNCHANGED <<etl_vars, config, ctor, src_table, landscape, runs, override_skip, exported, config_json>>

Next == LoadPoints \/ Delineate \/ AnalyzeAll \/ Export \/ SaveConfig \/ LoadConfig

Spec == Init /\ [][Next]_vars

(***************************************************************************)
(* Properties of the NAACC ingest (SpecEtl)                                *)
(***************************************************************************)

\* the ingest was called on the table
Ingested == etl.state # "new"

\* the row the ingest gives for the input row at a position, if any
HasOutputRow(i) == etl.state = "done" /\ i \in DOMAIN etl.table

\* C1: after validate_extend_hydrate_naacc_table has processed a table,
\* every row of the table has a row in the result whose include is true
\* exactly when its validation_errors is null.
C1_IncludeIffNoValidationErrors ==
    Ingested =>
        \A i \in 1..Len(naacc_petl_table) :
            /\ HasOutputRow(i)
            /\ etl.table[i]["include"] = IsNone(etl.table[i]["validation_errors"])

\* C2: the ingest is total: for any input table it completes without
\* raising and its result has exactly one row per input row.
C2_IngestIsTotal ==
    Ingested => etl.state = "done" /\ Len(etl.table) = Len(naacc_petl_table)

\* an input row with a slope of -1 and nothing wrong with it
SlopeMissingOnly(row) ==
    /\ row["Slope_Percent"] = NumStr(-1)
    /\ row["Crossing_Type"] = Str("Culvert")
    /\ row["Inlet_Width"] = NumStr(3)

\* C9: a row whose Slope_Percent is -1 and that has no other error leaves
\* the ingest with include true, slope_rr 0 and a note under the field
\* name slope.
C9_MissingSlopeKept ==
    Ingested =>
        \A i \in 1..Len(naacc_petl_table) :
            SlopeMissingOnly(naacc_petl_table[i]) =>
                /\ HasOutputRow(i)
                /\ etl.table[i]["include"] = TRUE
                /\ etl.table[i]["slope_rr"] = Num(0)
                /\ ~IsNone(etl.table[i]["validation_errors"])
                /\ "slope" \in DOMAIN etl.table[i]["validation_errors"].d

\* the ingest was called on a table with a row that has a slope of -1 and
\* nothing else wrong
C9_MissingSlopeIngested ==
    /\ Ingested
    /\ \E i \in 1..Len(naacc_petl_table) : SlopeMissingOnly(naacc_petl_table[i])

\* the ingest was called on a table with rows
C2_RowsIngested == Ingested /\ Len(naacc_petl_table) > 0

\* the ingest was called on a table with a row without an inlet width
C1_BadRowIngested ==
    /\ Ingested
    /\ \E i \in 1..Len(naacc_petl_table) : IsNone(naacc_petl_table[i]["Inlet_Width"])

(***************************************************************************)
(* Properties of the workflow (Spec)                                       *)
(***************************************************************************)

\* _analyze_all_points has completed on the points as they are
Analyzed == phase \in {"analyzed", "exported"}

\* the number a frequency stands for, held as an int or as text
FrequencyValue(f) == f.v

\* the positions of the included points of the group of a point
IncludedMembers(pts, i) ==
    {j \in 1..Len(pts) : pts[j].include /\ pts[j].group_id = pts[i].group_id}

\* the point is a member of a multi-culvert crossing
InCrossing(pts, i) == pts[i].include /\ Cardinality(IncludedMembers(pts, i)) >= 2

\* the entries of a point whose crossing overflow is a number >= 0
HandledEntries(pt) ==
    {j \in 1..Len(pt.analytics) :
        /\ ~IsNone(pt.analytics[j].overflow)
        /\ IsNum(pt.analytics[j].overflow.crossing_overflow_m3s)
        /\ pt.analytics[j].overflow.crossing_overflow_m3s.v >= 0}

\* C3: after _analyze_all_points, the max_return_period of every point is
\* the greatest frequency among its analytics entries whose crossing
\* overflow is not null and >= 0, and null when there is no such entry.
C3_MaxReturnPeriodIsGreatestHandled ==
    Analyzed =>
        \A i \in 1..Len(points) :
            LET handled == HandledEntries(points[i])
                mrp == points[i].capacity.max_return_period
            IN IF handled = {} THEN IsNone(mrp)
               ELSE /\ mrp.k \in {"num", "numstr"}
                    /\ \A j \in handled :
                          FrequencyValue(points[i].analytics[j].frequency)
                              <= FrequencyValue(mrp)
                    /\ \E j \in handled :
                          FrequencyValue(points[i].analytics[j].frequency)
                              = FrequencyValue(mrp)

\* a reloaded point was analysed and handles a frequency of two digits
C3_TwoDigitFrequencyHandled ==
    /\ Analyzed
    /\ \E i \in 1..Len(points) : \E j \in HandledEntries(points[i]) :
          /\ points[i].analytics[j].frequency.k = "numstr"
          /\ FrequencyValue(points[i].analytics[j].frequency) >= 10

\* the sum of the culvert capacities that are not null, over positions
RECURSIVE SumOfCapacities(_, _)
SumOfCapacities(pts, members) ==
    IF members = {} THEN 0
    ELSE LET i == CHOOSE j \in members : TRUE
             c == pts[i].capacity.culvert_capacity
         IN (IF IsNone(c) THEN 0 ELSE c.v) + SumOfCapacities(pts, members \ {i})

\* C4: after _analyze_all_points, every member of a group that two or more
\* included points share has a crossing_capacity equal to the sum of the
\* culvert capacities, those that are not null, of the included members.
C4_CrossingCapacityIsSum ==
    Analyzed =>
        \A i \in 1..Len(points) :
            InCrossing(points, i) =>
                points[i].capacity.crossing_capacity =
                    Num(SumOfCapacities(points, IncludedMembers(points, i)))

\* a crossing of two culverts that both have a capacity was analysed
C4_CrossingOfTwoAnalyzed ==
    /\ Analyzed
    /\ \E i \in 1..Len(points) :
          /\ InCrossing(points, i)
          /\ \A j \in IncludedMembers(points, i) :
                ~IsNone(points[j].capacity.culvert_capacity)
          /\ points[i].capacity.crossing_capacity # points[i].capacity.culvert_capacity

\* the members of a crossing whose shed is the largest, by area and then
\* by flow length
LargestSheds(pts, members) ==
    {r \in members :
        \A j \in members :
            \/ pts[j].shed.area_sqkm.v < pts[r].shed.area_sqkm.v
            \/ /\ pts[j].shed.area_sqkm.v = pts[r].shed.area_sqkm.v
               /\ pts[j].shed.max_fl.v <= pts[r].shed.max_fl.v}

C6_ConfigRoundTrips ==
    [][phase = "saved" /\ phase' # "saved" => points' = points]_vars

\* a configuration with a delineated point was saved
C6_DelineatedConfigSaved ==
    /\ phase = "saved"
    /\ \E i \in 1..Len(points) : ~IsNone(points[i].shed)

\* C7: the analytics of every point are sorted strictly ascending by
\* frequency: each entry's frequency is greater than that of the entry
\* before it.
C7_AnalyticsStrictlyAscending ==
    \A i \in 1..Len(points) :
        \A e \in 1..(Len(points[i].analytics) - 1) :
            FrequencyValue(points[i].analytics[e].frequency)
                < FrequencyValue(points[i].analytics[e + 1].frequency)

\* a point was analysed a second time
C7_AnalyzedTwice ==
    /\ Analyzed /\ runs = 2
    /\ \E i \in 1..Len(points) : points[i].include

\* C8: after any number of runs of _analyze_all_points, every included
\* point with a shed has as many analytics entries as its shed has
\* rainfalls, and the entry at each position has the frequency of the
\* rainfall at that position.
C8_AnalyticsMatchRainfall ==
    Analyzed =>
        \A i \in 1..Len(points) :
            points[i].include /\ ~IsNone(points[i].shed) =>
                /\ Len(points[i].analytics) = Len(points[i].shed.avg_rainfall)
                /\ \A e \in 1..Len(points[i].analytics) :
                      points[i].analytics[e].frequency = points[i].shed.avg_rainfall[e].freq

\* a reloaded configuration that already held analytics was analysed again
C8_ReloadedAnalyzedAgain ==
    /\ Analyzed /\ runs = 2
    /\ \E i \in 1..Len(points) :
          /\ points[i].analytics # <<>>
          /\ points[i].analytics[1].frequency.k = "numstr"

\* the positions of the points that are not included
Excluded(pts) == {i \in 1..Len(pts) : ~pts[i].include}

\* the included points, in order
IncludedOnly(pts) ==
    LET at == SelectIdx(Len(pts), 1, {i \in 1..Len(pts) : pts[i].include})
    IN [j \in 1..Len(at) |-> pts[at[j]]]

\* the rows of a table for a point id
RowsOf(table, uid) == {r \in 1..Len(table) : table[r].uid = uid}

NegativeEffectiveRainfall(pt, a) ==
    /\ ~IsNone(pt.shed)
    /\ Truthy(pt.shed.avg_cn)
    /\ a.avg_rainfall_cm.v - (((254000 \div pt.shed.avg_cn.v) - 2540) \div 5) < 0

\* C11: when the effective rainfall Pe of a frequency is negative, the
\* peak flow is null, and the culvert peak flow, the culvert overflow and
\* the crossing overflow stored for that frequency are null.
C11_NoRunoffGivesNull ==
    Analyzed =>
        \A i \in 1..Len(points) :
            points[i].include =>
                \A e \in 1..Len(points[i].analytics) :
                    LET a == points[i].analytics[e]
                    IN NegativeEffectiveRainfall(points[i], a) =>
                          /\ IsNone(a.peakflow.culvert_peakflow_m3s)
                          /\ IsNone(a.overflow.culvert_overflow_m3s)
                          /\ IsNone(a.overflow.crossing_overflow_m3s)

\* a point was analysed for a rainfall below the initial abstraction
C11_NoRunoffAnalyzed ==
    /\ Analyzed
    /\ \E i \in 1..Len(points) :
          /\ points[i].include
          /\ \E e \in 1..Len(points[i].analytics) :
                NegativeEffectiveRainfall(points[i], points[i].analytics[e])


\* the included points whose shed has a curve number of 0 or None
WithoutCurveNumber(pts) ==
    {i \in 1..Len(pts) :
        pts[i].include /\ ~IsNone(pts[i].shed) /\ ~Truthy(pts[i].shed.avg_cn)}

\* C12: the analytics run never aborts because of one bad point: when the
\* shed of an included point has a curve number that is null or zero,
\* _analyze_all_points completes, and the entries of that point hold a
\* null peak flow and null overflows.
C12_RunNeverAborts ==
    [][runs' = runs + 1 =>
          /\ phase' = "analyzed"
          /\ \A i \in WithoutCurveNumber(points) :
                \A e \in 1..Len(points'[i].analytics) :
                    /\ IsNone(points'[i].analytics[e].peakflow.culvert_peakflow_m3s)
                    /\ IsNone(points'[i].analytics[e].overflow.culvert_overflow_m3s)
                    /\ IsNone(points'[i].analytics[e].overflow.crossing_overflow_m3s)
      ]_vars

\* _analyze_all_points was called on two included points of one crossing,
\* of which the first has no curve number and the second has one
C12_OneBadPointAnalyzed ==
    /\ runs = 1
    /\ Len(points) = 2
    /\ WithoutCurveNumber(points) = {1}
    /\ points[2].include /\ points[2].group_id = points[1].group_id


(***************************************************************************)
(* The capacity of single culverts (SpecCapacity): points are generated    *)
(* from tables of one row whose capacity columns range over a grid         *)
(***************************************************************************)

\* the capacity columns of the rows: with and without an area, a head, a
\* depth; heads at, above and below what the formula can take the root of
CapacityInputs ==
    {[Capacity EXCEPT !.culvert_area_sqm = a, !.head_over_invert = h,
                      !.culvert_depth_m = d, !.slope_rr = s,
                      !.coefficient_slope = ks] :
        a \in {Num(65), None}, h \in {Num(1218), Num(1050), Num(700), None},
        d \in {Num(1000), Num(0), None}, s \in {Num(0), Num(5000)},
        ks \in {Num(-5), Num(7)}}

InitCapacity ==
    /\ naacc_petl_table = <<>>
    /\ etl = EtlIdle
    /\ \E c \in CapacityInputs :
          src_table = <<[SrcRow(1, [kind |-> "hydrated", survey |-> 1])
                            EXCEPT !.capacity = c]>>
    /\ landscape \in Landscapes(1)
    /\ landscape.rasters = <<5, 10>>
    /\ landscape.sheds[1] = Catchment(Num(1), Num(50))
    /\ phase = "new"
    /\ points = <<>>
    /\ runs = 0
    /\ override_skip = FALSE
    /\ exported = <<>>
    /\ config_json = None
    /\ ConstructedPlain

NextCapacity == LoadPoints

SpecCapacity == InitCapacity /\ [][NextCapacity]_vars

\* the sign of the radicand D * ((H / D) - y - ks * S) / c of a capacity
\* whose operands are numbers, D and c positive: that of
\* H - D * (y + ks * S); head and depth in mm, y in 1/100, ks in 1/10,
\* slope_rr in 1/10000
RadicandSign(c) ==
    LET r == c.head_over_invert.v * 100000
               - c.culvert_depth_m.v
                   * (c.coefficient_y.v * 1000 + c.coefficient_slope.v * c.slope_rr.v)
    IN IF r > 0 THEN 1 ELSE IF r < 0 THEN -1 ELSE 0

\* an operand of the capacity formula is null
CapacityOperandNull(c) ==
    \E f \in {"culvert_area_sqm", "head_over_invert", "culvert_depth_m", "slope_rr",
              "coefficient_slope", "coefficient_y", "coefficient_c"} : IsNone(c[f])

\* C13: calc_culvert_capacity returns null whenever an input is null or
\* the radicand is not positive, zero included (and when the radicand is
\* undefined for a zero depth), and a number only when the radicand is
\* strictly positive.
C13_CapacityNullUnlessPositiveRadicand ==
    phase = "loaded" =>
        \A i \in 1..Len(points) :
            LET c == points[i].capacity
            IN IF CapacityOperandNull(c) THEN IsNone(c.culvert_capacity)
               ELSE IF c.culvert_depth_m.v = 0 THEN IsNone(c.culvert_capacity)
               ELSE IF RadicandSign(c) <= 0 THEN IsNone(c.culvert_capacity)
               ELSE IsNum(c.culvert_capacity)

\* the capacity of a culvert was calculated whose radicand is exactly zero
C13_ZeroRadicandCalculated ==
    /\ phase = "loaded"
    /\ \E i \in 1..Len(points) :
          /\ ~CapacityOperandNull(points[i].capacity)
          /\ points[i].capacity.culvert_depth_m.v # 0
          /\ RadicandSign(points[i].capacity) = 0

(***************************************************************************)
(* The coefficients of _derive_capacity_parameters (SpecCoefficients): the *)
(* row function is applied to included rows of sound geometry whose shape, *)
(* material and inlet type range over the values of the branches and over  *)
(* values of no branch                                                     *)
(***************************************************************************)

CoefficientShapes ==
    {Str("Arch"), Str("Box"), Str("Elliptical"), Str("Pipe Arch"), Str("Round"),
     Str("Ford")}

CoefficientMaterials ==
    {Str("Concrete"), Str("Stone"), Str("Plastic"), Str("Metal"),
     Str("Combination"), Str("Wood"), None}

CoefficientInletTypes ==
    {Str("Headwall"), Str("Projecting"), Str("Mitered to Slope"), Str("Wingwall"),
     Str("Wingwall and Headwall"), Str("Other")}

\* the rows given to the row function: extended, cross-walked, tested
CoefficientRows ==
    {("validation_errors" :> None) @@
     [Capacity EXCEPT !.in_shape = sh, !.culv_mat = m, !.in_type = t,
                      !.in_a = Num(3), !.in_b = Num(2), !.hw = Num(1),
                      !.length = Num(40), !.out_a = Num(3), !.out_b = Num(2),
                      !.slope = sl, !.xing_type = Str("Culvert")] :
        sh \in CoefficientShapes, m \in CoefficientMaterials,
        t \in CoefficientInletTypes, sl \in {Num(2), Num(-1)}}

InitCoefficients ==
    /\ naacc_petl_table = <<>>
    /\ \E row \in CoefficientRows :
          etl = [state |-> "tested", error |-> "", table |-> <<row>>]
    /\ NoWorkflow

\* etl.rowmap(table, _derive_capacity_parameters, header=...)
DeriveParameters ==
    /\ etl.state = "tested"
    /\ etl' = [etl EXCEPT !.state = "derived",
                          !.table = [i \in 1..Len(etl.table) |->
                                        DeriveCapacityParameters(etl.table[i],
                                                                 DOMAIN etl.table[i])]]
    /\ UNCHANGED <<naacc_petl_table, workflow_vars>>

NextCoefficients == DeriveParameters

SpecCoefficients == InitCoefficients /\ [][NextCoefficients]_vars

\* the coefficient decision table, a rule per line, the first rule that
\* applies deciding: shapes, materials, inlet types ({} for any), c in
\* 1/10000, y in 1/100
AnyInlet == {}
DecisionTable ==
    << <<{"Arch"}, {"Concrete", "Stone"}, {"Headwall", "Projecting"}, 410, 57>>,
       <<{"Arch"}, {"Concrete", "Stone"}, {"Mitered to Slope"}, 400, 48>>,
       <<{"Arch"}, {"Concrete", "Stone"}, {"Wingwall"}, 400, 62>>,
       <<{"Arch"}, {"Concrete", "Stone"}, {"Wingwall and Headwall"}, 400, 62>>,
       <<{"Arch"}, {"Plastic", "Metal"}, {"Mitered to Slope"}, 540, 50>>,
       <<{"Arch"}, {"Plastic", "Metal"}, {"Projecting"}, 650, 12>>,
       <<{"Arch"}, {"Plastic", "Metal"},
         {"Headwall", "Wingwall", "Wingwall and Headwall"}, 431, 61>>,
       <<{"Arch"}, {"Combination"}, AnyInlet, 450, 50>>,
       <<{"Box"}, {"Concrete", "Stone"}, AnyInlet, 378, 87>>,
       <<{"Box"}, {"Plastic", "Metal"}, {"Headwall"}, 379, 69>>,
       <<{"Box"}, {"Plastic", "Metal"}, {"Wingwall"}, 400, 62>>,
       <<{"Box"}, {"Plastic", "Metal"}, AnyInlet, 400, 65>>,
       <<{"Box"}, {"Wood"}, AnyInlet, 380, 87>>,
       <<{"Box"}, {"Combination"}, AnyInlet, 380, 70>>,
       <<{"Elliptical", "Pipe Arch"}, {"Concrete", "Stone"}, AnyInlet, 480, 80>>,
       <<{"Elliptical", "Pipe Arch"}, {"Plastic", "Metal"}, {"Projecting"}, 600, 75>>,
       <<{"Elliptical", "Pipe Arch"}, {"Plastic", "Metal"}, AnyInlet, 480, 80>>,
       <<{"Elliptical", "Pipe Arch"}, {"Combination"}, AnyInlet, 500, 80>>,
       <<{"Round"}, {"Concrete", "Stone"}, {"Projecting"}, 320, 69>>,
       <<{"Round"}, {"Concrete", "Stone"}, AnyInlet, 290, 74>>,
       <<{"Round"}, {"Plastic", "Metal"}, {"Projecting"}, 550, 54>>,
       <<{"Round"}, {"Plastic", "Metal"}, {"Mitered to Slope"}, 460, 75>>,
       <<{"Round"}, {"Plastic", "Metal"}, AnyInlet, 380, 69>>,
       <<{"Round"}, {"Combination"}, AnyInlet, 400, 65>> >>

\* the text of a cell, "" for a cell that holds none
CellText(x) == IF IsNone(x) THEN "" ELSE x.s

\* the rules of the table that apply to a row
RulesFor(r) ==
    {i \in 1..Len(DecisionTable) :
        /\ CellText(r["in_shape"]) \in DecisionTable[i][1]
        /\ CellText(r["culv_mat"]) \in DecisionTable[i][2]
        /\ \/ DecisionTable[i][3] = AnyInlet
           \/ CellText(r["in_type"]) \in DecisionTable[i][3]}

\* the pair of the table for a row: that of its first rule, the defaults
\* where it has none
TablePair(r) ==
    IF RulesFor(r) = {} THEN <<400, 70>>
    ELSE LET i == CHOOSE j \in RulesFor(r) : \A k \in RulesFor(r) : j <= k
         IN <<DecisionTable[i][4], DecisionTable[i][5]>>

\* C14: for every (in_shape, culv_mat, in_type) the row function assigns
\* the (c, y) pair of the coefficient decision table; a triple of no rule
\* keeps c = 0.04 and y = 0.7, and no validation error is recorded for it.
C14_CoefficientsFollowTable ==
    etl.state = "derived" =>
        \A i \in 1..Len(etl.table) :
            LET r == etl.table[i]
            IN /\ r["coefficient_c"] = Num(TablePair(r)[1])
               /\ r["coefficient_y"] = Num(TablePair(r)[2])
               /\ RulesFor(r) = {} =>
                     /\ r["coefficient_c"] = Num(400)
                     /\ r["coefficient_y"] = Num(70)
                     /\ IsNone(r["validation_errors"])

\* a row of a rule other than the defaults, and of no rule, has been derived
C14_ListedTripleDerived ==
    /\ etl.state = "derived"
    /\ \E i \in 1..Len(etl.table) :
          /\ etl.table[i]["in_shape"] = Str("Arch")
          /\ etl.table[i]["culv_mat"] = Str("Metal")
          /\ etl.table[i]["in_type"] = Str("Projecting")
          /\ etl.table[i]["coefficient_c"] = Num(650)
          /\ etl.table[i]["coefficient_y"] = Num(12)


(***************************************************************************)
(* The catchment of a single culvert (SpecShed): one point is loaded,      *)
(* delineated and analysed over rasters that do and do not cover its shed  *)
(***************************************************************************)

\* the mean of a rainfall raster over the shed, in 1/1000 inch: None where
\* the zonal statistics have no feature
ShedRainfallValues == [{5, 10} -> {None, Num(0), Num(3000)}]

\* the scalars of the shed: a flat shed has a slope of 0, a shed of one
\* cell a flow length of 0
ShedCatchments ==
    {[area_sqkm |-> Num(1), avg_slope_pct |-> s, avg_cn |-> cn, max_fl |-> fl] :
        s \in {Num(5), Num(0)}, cn \in CurveNumbers, fl \in {Num(1000), Num(0)}}

InitShed ==
    /\ naacc_petl_table = <<>>
    /\ etl = EtlIdle
    /\ src_table = <<SrcRow(1, [kind |-> "hydrated", survey |-> 1])>>
    /\ \E r \in ShedRainfallValues, c \in ShedCatchments :
          landscape = [rasters |-> <<5, 10>>, rain |-> r, sheds |-> <<c>>]
    /\ points = <<>>
    /\ phase = "new"
    /\ runs = 0
    /\ override_skip = FALSE
    /\ exported = <<>>
    /\ config_json = None
    /\ ConstructedPlain

NextShed == LoadPoints \/ Delineate \/ AnalyzeAll

SpecShed == InitShed /\ [][NextShed]_vars

\* the rainfall an entry of a point was derived from: every call of
\* derive_rainfall_analytics appends one entry per rainfall, in order
RainfallOfEntry(pt, e) ==
    pt.shed.avg_rainfall[((e - 1) % Len(pt.shed.avg_rainfall)) + 1]

\* the points whose analytics were derived from their shed
Derived(pts) == {i \in 1..Len(pts) : ~IsNone(pts[i].shed) /\ pts[i].analytics # <<>>}

\* C15: for every entry built by derive_rainfall_analytics,
\* avg_rainfall_cm is value / 1000 * 2.54 of its rainfall: 0 for a value of
\* 0, and for a null value no number.
C15_DepthIsConvertedValue ==
    \A i \in Derived(points) :
        \A e \in 1..Len(points[i].analytics) :
            LET value == RainfallOfEntry(points[i], e).value
                depth == points[i].analytics[e].avg_rainfall_cm
            IN IF IsNone(value) THEN ~IsNum(depth)
               ELSE depth = Num((value.v * 254) \div 1000)

\* analytics were derived from a shed that a rainfall raster does not cover
C15_NullRainfallDerived ==
    \E i \in Derived(points) :
        \E e \in 1..Len(points[i].analytics) :
            IsNone(RainfallOfEntry(points[i], e).value)


\* C16: after _analyze_all_points, the time of concentration of the peak
\* flow of every entry of every analysed point is the tc_hr of the shed of
\* the point, also where the slope or the flow length of the shed is zero.
C16_EntryTcIsShedTc ==
    phase = "analyzed" =>
        \A i \in PointsToAnalyze(points) :
            \A e \in 1..Len(points[i].analytics) :
                points[i].analytics[e].peakflow.time_of_concentration_hr
                    = points[i].shed.tc_hr

\* a point whose shed has a slope or a flow length of zero was analysed
C16_FlatShedAnalyzed ==
    /\ phase = "analyzed"
    /\ \E i \in PointsToAnalyze(points) :
          /\ points[i].analytics # <<>>
          /\ \/ points[i].shed.avg_slope_pct = Num(0)
             \/ points[i].shed.max_fl = Num(0)


(***************************************************************************)
(* workflows.py: the construction of the workflow object (SpecConfig)      *)
(***************************************************************************)

\* WorkflowConfigSchema().load(config_as_dict, partial=True): the fields of
\* the file, the defaults of the dataclass for the others
LoadConfigFields(file) ==
    [f \in WorkflowConfigFields |->
        IF f \in DOMAIN file.fields THEN file.fields[f] ELSE WorkflowConfig[f]]

\* WorkflowManager.__init__: the defaults; with a config_json_filepath the
\* file replaces them (open() raises where there is no file); then
\* replace(self.config, **kwargs)
WorkflowManagerInit(args, file) ==
    LET loaded == IF ~args.config_json_filepath THEN WorkflowConfig
                  ELSE IF IsNone(file) THEN Raised("FileNotFoundError")
                  ELSE LoadConfigFields(file)
    IN IF RowRaised(loaded) THEN loaded
       ELSE [f \in WorkflowConfigFields |->
               IF f \in DOMAIN args.kwargs THEN args.kwargs[f] ELSE loaded[f]]

\* CulvertCapacity.__init__: super().__init__(**kwargs), then load_config
\* of the save_config_json_filepath or, without one, load_config(), which
\* falls back on the config_json_filepath of the object; either replaces
\* self.config by what the file holds
CulvertCapacityInit(args, file) ==
    LET base == WorkflowManagerInit(args, file)
    IN IF RowRaised(base) THEN base
       ELSE IF ~(args.save_config_json_filepath \/ args.config_json_filepath) THEN base
       ELSE IF IsNone(file) THEN Raised("FileNotFoundError")
       ELSE LoadConfigFields(file)

\* file path fields given by a file or by keyword arguments: any of the
\* fields, each with one of two paths
PartialConfigs ==
    UNION {[S -> {Str("a.gdb"), Str("b.gdb")}] : S \in SUBSET WorkflowConfigFields}

\* before the construction: a configuration file of an earlier workflow,
\* or none
InitConfig ==
    /\ naacc_petl_table = <<>>
    /\ etl = EtlIdle
    /\ src_table = <<>>
    /\ landscape = <<>>
    /\ points = <<>>
    /\ phase = "none"
    /\ runs = 0
    /\ override_skip = FALSE
    /\ exported = <<>>
    /\ \/ config_json = None
       \/ \E fl \in PartialConfigs :
             config_json = [points |-> <<>>, phase |-> "new", fields |-> fl]
    /\ ConstructedPlain

\* CulvertCapacity(**kwargs), the paths naming the configuration file
Construct ==
    /\ phase = "none"
    /\ \E args \in [config_json_filepath : BOOLEAN,
                    save_config_json_filepath : BOOLEAN,
                    kwargs : PartialConfigs] :
          \E r \in {CulvertCapacityInit(args, config_json)} :
              /\ ctor' = args
              /\ IF RowRaised(r)
                 THEN phase' = "aborted" /\ UNCHANGED <<config, points>>
                 ELSE /\ phase' = "new"
                      /\ config' = r
                      /\ points' = IF args.save_config_json_filepath
                                      \/ args.config_json_filepath
                                   THEN LoadConfigPoints(config_json.points)
                                   ELSE <<>>
    /\ UNCHANGED <<etl_vars, src_table, landscape, runs, override_skip, exported,
                   config_json>>

NextConfig == Construct

SpecConfig == InitConfig /\ [][NextConfig]_vars

\* the workflow object is constructed
Constructed == phase \notin {"none", "aborted"}

\* C17: keyword arguments override the values of the JSON config file:
\* once CulvertCapacity(**kwargs) is constructed, with or without the path
\* of a config file, every WorkflowConfig field named in kwargs holds the
\* value of kwargs.
C17_KwargsOverrideFile ==
    [](Constructed => \A f \in DOMAIN ctor.kwargs : config[f] = ctor.kwargs[f])

\* a workflow was constructed from a file and a keyword argument that
\* differ on a field
C17_ConstructedOverFile ==
    /\ Constructed
    /\ ctor.config_json_filepath
    /\ ~IsNone(config_json)
    /\ \E f \in DOMAIN ctor.kwargs \cap DOMAIN config_json.fields :
          ctor.kwargs[f] # config_json.fields[f]


(***************************************************************************)
(* Properties of the delineation and of the generated points (Spec)        *)
(***************************************************************************)

\* C18: after delineation_and_analysis_in_parallel a point carries a Shed
\* exactly when its include is true or override_skip is set.
C18_ShedIffIncludedOrOverride ==
    phase \in {"delineated", "analyzed", "aborted", "exported"} =>
        \A i \in 1..Len(points) :
            ~IsNone(points[i].shed) <=> (points[i].include \/ override_skip)

\* the delineation ran with and without the override over an included and
\* an excluded point
C18_MixedPointsDelineated ==
    /\ phase = "delineated"
    /\ override_skip
    /\ \E i, j \in 1..Len(points) : points[i].include /\ ~points[j].include


\* C19: every point produced by generate_points_from_table has include
\* false exactly when it carries at least one validation error: no point
\* is excluded while its validation_errors map is empty.
C19_ExcludedIffValidationErrors ==
    \A i \in 1..Len(points) :
        ~points[i].include <=> points[i].validation_errors # EmptyDict

\* a point was produced from a row whose NAACC columns do not load into the
\* NAACC schema
C19_UnloadableRowGenerated ==
    /\ phase = "loaded"
    /\ \E i \in 1..Len(points) : ~src_table[i].naacc_loads


(***************************************************************************)
(* The crossing type in the culvert-geometry stage (SpecEtl)               *)
(***************************************************************************)

\* C20: the culvert-geometry stage records a crossing-type validation
\* error for a row exactly when its NAACC Crossing_Type, whatever the case
\* of its letters, is neither "Culvert" nor "Multiple Culvert".
C20_CrossingTypeErrorIffNotCulvert ==
    Ingested =>
        \A i \in 1..Len(naacc_petl_table) :
            /\ HasOutputRow(i)
            /\ LET ve == etl.table[i]["validation_errors"]
                   ct == naacc_petl_table[i]["Crossing_Type"]
                   recorded == ~IsNone(ve) /\ "xing_type" \in DOMAIN ve.d
                   culvert == ~IsNone(ct)
                              /\ Lower(ct.s) \in {"culvert", "multiple culvert"}
               IN recorded <=> ~culvert

\* a table with a culvert and with a bridge went through the ingest
C20_CulvertAndBridgeIngested ==
    /\ Ingested
    /\ \E i, j \in 1..Len(naacc_petl_table) :
          /\ naacc_petl_table[i]["Crossing_Type"] = Str("Culvert")
          /\ naacc_petl_table[j]["Crossing_Type"] = Str("Bridge")


(***************************************************************************)
(* The culvert-geometry tests (SpecGeometry): the row function is applied  *)
(* to extended and cross-walked rows whose crossing type is a text, with   *)
(* and without errors of the schema                                        *)
(***************************************************************************)

InitGeometry ==
    /\ naacc_petl_table = <<>>
    /\ \E a \in {Num(3), Num(-2), None}, b \in {Num(2), Num(-1), None},
          l \in {Num(40), Str("abc")}, x \in {Str("Culvert"), Str("Bridge")},
          h \in {Num(1), Num(-3)},
          ve \in {None, Dict([Inlet_Width |-> <<"Field may not be null.">>])} :
          etl = [state |-> "crosswalked", error |-> "",
                 table |-> <<("validation_errors" :> ve) @@
                             [Capacity EXCEPT !.xing_type = x, !.in_a = a, !.in_b = b,
                                              !.hw = h, !.length = l,
                                              !.in_shape = Str("Round"),
                                              !.in_type = Str("Headwall"),
                                              !.culv_mat = Str("Concrete"),
                                              !.out_a = Num(3), !.out_b = Num(2),
                                              !.slope = Num(2)]>>]
    /\ NoWorkflow

\* etl.rowmap(table, _culvert_geometry_tests, failonerror=True)
TestGeometry ==
    /\ etl.state = "crosswalked"
    /\ \E r \in {CulvertGeometryTests(etl.table[1], DOMAIN etl.table[1])} :
          etl' = IF RowRaised(r)
                 THEN [state |-> "raised", error |-> r.e, table |-> <<>>]
                 ELSE [state |-> "tested", error |-> "", table |-> <<r>>]
    /\ UNCHANGED <<naacc_petl_table, workflow_vars>>

SpecGeometry == InitGeometry /\ [][TestGeometry]_vars

\* the geometry fields under which a row holds a validation error
GeometryErrorFields(row) ==
    IF IsNone(row["validation_errors"]) THEN {}
    ELSE DOMAIN row["validation_errors"].d \cap {"in_a", "in_b", "hw", "length"}

SchemaErrors(i) == ValidateRow(naacc_petl_table[i])["validation_errors"]

\* C22: validation errors only accumulate across the stages: every (field,
\* reason) entry recorded by the validation against the schema is still in
\* the validation_errors of the row after the culvert-geometry tests and
\* the derivation of the capacity parameters.
C22_SchemaErrorsKept ==
    Ingested =>
        \A i \in 1..Len(naacc_petl_table) :
            ~IsNone(SchemaErrors(i)) =>
                /\ HasOutputRow(i)
                /\ ~IsNone(etl.table[i]["validation_errors"])
                /\ \A f \in DOMAIN SchemaErrors(i).d :
                      /\ f \in DOMAIN etl.table[i]["validation_errors"].d
                      /\ \A n \in 1..Len(SchemaErrors(i).d[f]) :
                            \E m \in 1..Len(etl.table[i]["validation_errors"].d[f]) :
                                etl.table[i]["validation_errors"].d[f][m]
                                    = SchemaErrors(i).d[f][n]

\* a table with a row that the schema has errors for went through the
\* ingest
C22_SchemaErrorsIngested ==
    /\ Ingested
    /\ \E i \in 1..Len(naacc_petl_table) :
          ~IsNone(SchemaErrors(i)) /\ "Inlet_Width" \in DOMAIN SchemaErrors(i).d


(***************************************************************************)
(* The crossings of a loaded configuration (SpecCrossing): a configuration *)
(* file holds two included, delineated points, with and without a group    *)
(* id, whose sheds differ in area, flow length and curve number; it is     *)
(* loaded and analysed                                                     *)
(***************************************************************************)

InitCrossing ==
    /\ naacc_petl_table = <<>>
    /\ etl = EtlIdle
    /\ src_table = <<>>
    /\ landscape = <<>>
    /\ points = <<>>
    /\ phase = "saved"
    /\ runs = 0
    /\ override_skip = FALSE
    /\ exported = <<>>
    /\ \E g \in [1..2 -> {None, NumStr(1), NumStr(2)}],
          sh \in [1..2 -> {[area_sqkm |-> a, avg_slope_pct |-> Num(5), avg_cn |-> cn,
                            max_fl |-> fl] :
                              a \in {Num(1), Num(2)}, cn \in {Num(50), Num(80)},
                              fl \in {Num(1000), Num(2000)}}] :
          config_json =
            [points |->
                SaveConfigPoints(
                    [i \in 1..2 |->
                        [GeneratePoint(SrcRow(i, [kind |-> "hydrated", survey |-> 1]))
                            EXCEPT !.group_id = g[i],
                                   !.shed = DelineateOneCatchment(
                                                [rasters |-> <<5, 10>>,
                                                 rain |-> [f \in {5, 10} |->
                                                             IF f = 5 THEN Num(3000)
                                                             ELSE Num(6000)],
                                                 sheds |-> sh], i)]]),
             phase |-> "delineated"]
    /\ ConstructedPlain

SpecCrossing == InitCrossing /\ [][LoadConfig \/ AnalyzeAll]_vars

\* the included points that share the group id of a point, the id not null
Crossing(pts, i) ==
    {j \in 1..Len(pts) :
        pts[j].include /\ ~IsNone(pts[i].group_id) /\ pts[j].group_id = pts[i].group_id}

\* the members of a crossing with the largest area and, among these, the
\* largest flow length
Reference(pts, members) ==
    {r \in members :
        \A j \in members :
            \/ pts[j].shed.area_sqkm.v < pts[r].shed.area_sqkm.v
            \/ /\ pts[j].shed.area_sqkm.v = pts[r].shed.area_sqkm.v
               /\ pts[j].shed.max_fl.v <= pts[r].shed.max_fl.v}

\* C23: the reference point of a multi-culvert crossing is the included
\* member with the largest shed area and, among members tied on the area,
\* the largest flow length; the crossing peak flow of every member at a
\* frequency is the culvert peak flow of the reference point at that
\* frequency.
C23_CrossingPeakflowOfReference ==
    Analyzed =>
        \A i \in 1..Len(points) :
            (points[i].include /\ Cardinality(Crossing(points, i)) > 1) =>
                \E r \in Reference(points, Crossing(points, i)) :
                    \A m \in Crossing(points, i) :
                        \A e \in 1..Len(points[m].analytics) :
                            \A x \in 1..Len(points[r].analytics) :
                                points[r].analytics[x].frequency
                                        = points[m].analytics[e].frequency
                                    => points[m].analytics[e].peakflow.crossing_peakflow_m3s
                                        = points[r].analytics[x].peakflow.culvert_peakflow_m3s

\* a crossing was analysed whose two members are tied on the area, the
\* first with the longer flow length, and differ in their peak flow
C23_TiedAreasAnalyzed ==
    /\ Analyzed
    /\ Len(points) = 2
    /\ Cardinality(Crossing(points, 1)) = 2
    /\ points[1].shed.area_sqkm = points[2].shed.area_sqkm
    /\ points[1].shed.max_fl.v > points[2].shed.max_fl.v
    /\ points[1].analytics[1].peakflow.culvert_peakflow_m3s
          # points[2].analytics[1].peakflow.culvert_peakflow_m3s


SingleCulvert(pts, i) ==
    /\ pts[i].include
    /\ \A j \in PointsToAnalyze(pts) \ {i} : pts[j].group_id # pts[i].group_id

\* capacity - peak flow, null when either operand is null
OverflowExpected(capacity, peak_flow) ==
    IF IsNone(capacity) \/ IsNone(peak_flow) THEN None
    ELSE IF peak_flow.k = "nan" THEN NaN
    ELSE Num(capacity.v - peak_flow.v)

\* C24: after the analysis, an included point whose group id no other
\* included point shares has crossing_capacity = culvert_capacity and, at
\* every frequency, crossing peak flow = culvert peak flow and crossing
\* overflow = culvert overflow = culvert_capacity - culvert peak flow (null
\* when either operand is null).
C24_SingleCulvertCrossingIsCulvert ==
    Analyzed =>
        \A i \in 1..Len(points) :
            SingleCulvert(points, i) =>
                /\ points[i].capacity.crossing_capacity
                      = points[i].capacity.culvert_capacity
                /\ \A e \in 1..Len(points[i].analytics) :
                      LET a == points[i].analytics[e]
                      IN /\ a.peakflow.crossing_peakflow_m3s = a.peakflow.culvert_peakflow_m3s
                         /\ a.overflow.crossing_overflow_m3s = a.overflow.culvert_overflow_m3s
                         /\ a.overflow.culvert_overflow_m3s
                               = OverflowExpected(points[i].capacity.culvert_capacity,
                                                  a.peakflow.culvert_peakflow_m3s)

\* a point that is alone in its group was analysed next to another
\* included point, and has an overflow at some frequency
C24_SingleCulvertAnalyzed ==
    /\ Analyzed
    /\ Len(points) = 2
    /\ points[2].include
    /\ SingleCulvert(points, 1)
    /\ \E e \in 1..Len(points[1].analytics) :
          IsNum(points[1].analytics[e].overflow.culvert_overflow_m3s)


(***************************************************************************)
(* Runoff.calculate_peak_flow on its own (SpecRunoff): a Runoff and the    *)
(* keyword arguments of one call, with and without a rain_ratio_method     *)
(***************************************************************************)

\* the keyword arguments: curve numbers up to 100, rainfall depths from 0,
\* a given or missing time of concentration; rain_ratio_method None stands
\* for a call that does not pass it
RunoffKwargs ==
    [mean_slope_pct : {Num(5), Num(0)},
     max_flow_length_m : {Num(1000), Num(0)},
     avg_rainfall_cm : {Num(0), Num(100), Num(762)},
     basin_area_sqkm : {Num(2)},
     avg_cn : {None, Num(0), Num(50), Num(80), Num(100)},
     tc_hr : {None, Num(1414)},
     rain_ratio_method : {None, Num(1), Num(2)}]

InitRunoff ==
    /\ naacc_petl_table = <<>>
    /\ etl = EtlIdle
    /\ src_table = <<>>
    /\ landscape = <<>>
    /\ \E kwargs \in RunoffKwargs : points = <<[kwargs |-> kwargs, peakflow |-> Runoff]>>
    /\ phase = "kwargs"
    /\ runs = 0
    /\ override_skip = FALSE
    /\ exported = <<>>
    /\ config_json = None
    /\ ConstructedPlain

\* results = peak_flow_calculator(**kwargs)
PeakFlowResults(kw) ==
    peak_flow_calculator_by(kw.mean_slope_pct, kw.max_flow_length_m, kw.avg_rainfall_cm,
                            kw.basin_area_sqkm, kw.avg_cn, kw.tc_hr,
                            IF IsNone(kw.rain_ratio_method) THEN 2
                            ELSE kw.rain_ratio_method.v)

\* Runoff.calculate_peak_flow: the results are unpacked into the peak flow
\* and the time of concentration; None cannot be unpacked (TypeError)
CalculatePeakFlow ==
    /\ phase = "kwargs"
    /\ \E results \in {PeakFlowResults(points[1].kwargs)} :
          IF results.k = "pair"
          THEN /\ points' = [points EXCEPT ![1].peakflow.culvert_peakflow_m3s = results.a,
                                           ![1].peakflow.time_of_concentration_hr = results.b]
               /\ phase' = "calculated"
          ELSE /\ phase' = IF IsRaised(results) THEN results.e ELSE "TypeError"
               /\ UNCHANGED points
    /\ UNCHANGED <<etl_vars, config, ctor, src_table, landscape, runs, override_skip, exported, config_json>>

SpecRunoff == InitRunoff /\ [][CalculatePeakFlow]_vars

\* the call got past the runoff depth: the rain is at least the initial
\* abstraction, so that one of the two rain-ratio formulas gave the result
FormulaReached(call) ==
    call.peakflow.culvert_peakflow_m3s # Num(NO_RUNOFF_PEAK)

\* the result is the one of the discrete formula: nine values
Discrete(call) == call.peakflow.culvert_peakflow_m3s.k = "array"

\* C25: a call that selects rain-ratio method 1, or selects none, gets the
\* result of the continuous formula (method 1); the nine-constant discrete
\* formula (method 2) gives the result only of a call that selects method 2.
C25_DiscreteOnlyWhenSelected ==
    (phase = "calculated" /\ FormulaReached(points[1])) =>
        /\ points[1].kwargs.rain_ratio_method \in {None, Num(1)} => ~Discrete(points[1])
        /\ Discrete(points[1]) => points[1].kwargs.rain_ratio_method = Num(2)

\* a call that selects method 1 got a result from a formula
C25_MethodOneSelected ==
    /\ phase = "calculated"
    /\ FormulaReached(points[1])
    /\ points[1].kwargs.rain_ratio_method = Num(1)

\* C27: a call with a curve number that is neither null nor 0 returns a
\* pair (peak flow or null, time of concentration) and raises nothing, a
\* rainfall depth of 0 with a curve number of 100 included.
C27_NoRaiseForCurveNumber ==
    (phase # "kwargs" /\ Truthy(points[1].kwargs.avg_cn)) => phase = "calculated"

\* the call with a curve number of 100 and no rain was made
C27_SaturatedNoRainCalled ==
    /\ phase # "kwargs"
    /\ points[1].kwargs.avg_cn = Num(100)
    /\ points[1].kwargs.avg_rainfall_cm = Num(0)


\* the four exported values of an analytics entry
ExportedValues(a) ==
    [culvert_peakflow_m3s |-> a.peakflow.culvert_peakflow_m3s,
     crossing_peakflow_m3s |-> a.peakflow.crossing_peakflow_m3s,
     culvert_overflow_m3s |-> a.overflow.culvert_overflow_m3s,
     crossing_overflow_m3s |-> a.overflow.crossing_overflow_m3s]

\* C26: in the exported point table, for every point and every frequency f
\* of FREQUENCIES, the columns y{f}_ppf_m3s, y{f}_xpf_m3s, y{f}_pof_m3s and
\* y{f}_xof_m3s hold the values of the point's analytics entry whose
\* frequency is f, whatever the frequencies of the rainfall rasters are.
C26_ColumnsHoldEntryOfFrequency ==
    phase = "exported" =>
        \A i \in 1..Len(points) : \A j \in 1..Len(FREQUENCIES) :
            \A e \in 1..Len(points[i].analytics) :
                points[i].analytics[e].frequency.v = FREQUENCIES[j] =>
                    exported[i].y[j] = ExportedValues(points[i].analytics[e])

\* a table was exported with a point that has an analysed entry
C26_AnalyzedPointExported ==
    /\ phase = "exported"
    /\ \E i \in 1..Len(points) : \E e \in 1..Len(points[i].analytics) :
          IsNum(points[i].analytics[e].overflow.culvert_overflow_m3s)


(***************************************************************************)
(* services/gp/_esri: _delineation_and_analysis_in_parallel_job, mapped    *)
(* over the dumped points as the worker pool would (SpecParallel)          *)
(***************************************************************************)

\* the job for one dumped point: the point is loaded; a point that is
\* excluded while there is no override enters the branch, whose first call
\* is of create_geodata_from_points, which the class does not have
\* (AttributeError); every other point is dumped again as it was loaded
DelineationAndAnalysisInParallelJob(point, land, i, override) ==
    IF ~override /\ ~LoadPoint(point).include THEN Raised("AttributeError")
    ELSE DumpPoint(LoadPoint(point))

\* the pool maps the job over the dumps of the points and the results are
\* loaded into the new list of points; an exception of a job ends the call
DelineateInParallel ==
    /\ phase = "loaded"
    /\ \E override \in BOOLEAN :
          /\ override_skip' = override
          /\ \E results \in {[i \in 1..Len(points) |->
                                DelineationAndAnalysisInParallelJob(
                                    DumpPoint(points[i]), landscape, i, override)]} :
                IF \E i \in 1..Len(results) : RowRaised(results[i])
                THEN /\ phase' = "aborted"
                     /\ UNCHANGED points
                ELSE /\ phase' = "delineated"
                     /\ points' = [i \in 1..Len(results) |-> LoadPoint(results[i])]
    /\ UNCHANGED <<etl_vars, config, ctor, src_table, landscape, runs, exported, config_json>>

SpecParallel == Init /\ [][LoadPoints \/ DelineateInParallel]_vars

\* C28: the per-point parallel job delineates the points the sequential
\* loop delineates: after the jobs, a point has a Shed exactly when it is
\* included or override_skip is set.
C28_JobShedIffIncludedOrOverride ==
    phase \in {"delineated", "aborted"} =>
        \A i \in 1..Len(points) :
            ~IsNone(points[i].shed) <=> (points[i].include \/ override_skip)

\* the jobs ran over a table that has an included point
C28_JobsRanOverIncluded ==
    /\ phase = "delineated"
    /\ \E i \in 1..Len(points) : points[i].include


(***************************************************************************)
(* The ingest of the output of an ingest (SpecEtl)                         *)
(***************************************************************************)

\* the include flag, the validation errors and the capacity columns of a row
IngestValues(row) ==
    [c \in {"include", "validation_errors"} \cup DOMAIN Capacity |-> row[c]]

\* C30: the ingest is idempotent on its own output: the ingest of a table
\* gives an output table, and validate_extend_hydrate_naacc_table on that
\* output gives, for every row, the same include, validation errors and
\* capacity values, the capacity columns being dropped and derived again.
C30_IngestOfOutputIsSame ==
    Ingested =>
        /\ etl.state = "done"
        /\ Len(etl.table) = Len(naacc_petl_table)
        /\ LET again == ValidateExtendHydrateTable(etl.table)
           IN /\ again.state = "done"
              /\ Len(again.table) = Len(etl.table)
              /\ \A i \in 1..Len(etl.table) :
                    IngestValues(again.table[i]) = IngestValues(etl.table[i])

\* a table with a row that conforms to the schema went through the ingest
C30_ConformingRowIngested ==
    /\ Ingested
    /\ \E i \in 1..Len(naacc_petl_table) : IsNone(SchemaErrors(i))

====
